---------------------------- MODULE Spec2Model ----------------------------
(***************************************************************************)
(* Model of the AlgoBattle market-data core: the watchlist TreeSet         *)
(* (pkg/utils), the History store (pkg/models/stock_data.go) and the       *)
(* Tiingo ingestion service (pkg/services/tiingo.go).                      *)
(*                                                                         *)
(* Ticker symbols are modelled as small integers; cmp.Compare on strings   *)
(* becomes the order of the integers.  Dates are integers (days).          *)
(***************************************************************************)
EXTENDS Integers, Sequences, FiniteSets, TLC

(***************************************************************************)
(* Bounds of the model.                                                    *)
(***************************************************************************)
MaxSym == 4        \* symbols are 1..MaxSym
MaxOps == 6        \* Insert/Remove calls in one behaviour of SpecTree
MaxDate == 3       \* bar and row dates are 1..MaxDate
MaxBars == 2       \* bars in one provider response / AddData call
MaxPrice == 1      \* AdjClose values are 1..MaxPrice
MaxCalls == 2      \* AddData calls in one behaviour of SpecStore
MaxFetch == 1      \* bars in one provider response of SpecDownload
MaxDirect == 2     \* HistoricalDaily calls in one behaviour of SpecFetch
MaxIngest == 3     \* AddData calls in one behaviour of SpecIngest
MaxIndDate == 5    \* bar dates of SpecApply are 1..MaxIndDate
MaxRunDate == 2    \* bar dates of SpecInd are 1..MaxRunDate
MaxIndCalls == 2   \* AddData calls in one behaviour of SpecInd, SpecApply
MaxInd == 2        \* indicators added in one behaviour of SpecInd
MaxSmoothing == 2  \* EMA smoothing constants are 1..MaxSmoothing
MaxPeriod == 3     \* EMA period lengths are 1..MaxPeriod
MaxMACD == 2       \* MACD short and long periods are 1..MaxMACD
MaxPasses == 2     \* CalculateIndicators calls in one behaviour of SpecInd
MaxTicks == 2      \* ticks of liveDownloader received in one behaviour of SpecBot
MaxQuote == 2      \* quotes (tngoLast) are 1..MaxQuote
MaxDocs == 1       \* documents in the bots collection are 0..MaxDocs
MaxElapsed == 2    \* hours that pass in one behaviour of SpecBot
MaxCash == 3       \* the starting cash of the portfolio
MaxShares == 2     \* share counts of a transaction are -1..MaxShares
MaxExec == 3       \* Execute calls in one behaviour of SpecPortfolio

Symbols == 1..MaxSym

StoreSyms == 1..2  \* the tickers merged into the store

VARIABLES
    root,       \* TreeSet.root of the watchlist (Tiingo.tickers)
    model,      \* ghost: the values inserted and not removed afterwards
    nops,       \* ghost: number of Insert/Remove calls made
    Rows,       \* History.Rows: sequence of [Date, Data]
    Tickers,    \* History.Tickers: ticker -> [Start, End]
    call,       \* ghost: the arguments of the last AddData call
    query,      \* ghost: the last GetClosestRowBefore call and its result
    ncalls,     \* ghost: number of AddData calls made
    pc,         \* position of the DownloadMissingTickers/DownloadAllTickers call
    kind,       \* which of the two is running: "missing" or "all"
    snapshot,   \* the values All() handed to the range loop
    cursor,     \* position of the range loop in snapshot
    task,       \* the goroutines started with errs.Go, by loop iteration
    groupErr,   \* errgroup.Group.err: the first error a task returned
    saveErr,    \* what SaveCaches returned
    ret,        \* what the Download* call returned
    saves,      \* ghost: number of SaveCaches calls
    crashed,    \* the Go runtime aborted the process
    mapWriting, \* a goroutine is inside an assignment to the map h.Tickers
    spare,      \* backing array of h.Rows beyond len(h.Rows)
    hd,         \* ghost: the last direct HistoricalDaily call and its result
    nhd,        \* ghost: number of direct HistoricalDaily calls
    atCall,     \* ghost: the store when the Download* call started
    failOrder,  \* ghost: the errors the tasks returned, in order of return
    seen,       \* ghost: ticker -> the bar dates ever passed to AddData for it
    prev,       \* ghost: the store before the last AddData call, when it was a repeat
    again,      \* ghost: the last AddData call repeated the call before it
    unpacked,   \* ghost: the last Pack().Unpack() round trip: store and result
    wproc,      \* the TreeSet operation each goroutine is in, and where in it
    mu,         \* TreeSet.mu, the sync.RWMutex of the pkg/utils TreeSet
    disk,       \* the cache folder ./data and its two files
    lastLoad,   \* ghost: the LoadCaches call just made and what it returned;
                \* flip changes with every call
    lastSave,   \* ghost: the SaveCaches call just made, what it tried and returned
    Indicators, \* Tiingo.Indicators: the indicators added, in order
    engine,     \* the CalculateIndicators built in: "pkg" (pkg/indicators, one
                \* ticker after the other) or "main" (package main, a goroutine
                \* for each ticker and a sync.WaitGroup)
    ipc,        \* position of the Tiingo.CalculateIndicators call
    todo,       \* the entries of h.Tickers its range loop has not visited yet
    itask,      \* ticker -> its part of the call: state, window, indicators
                \* applied, wg.Done() calls made for it
    wg,         \* the counter of the sync.WaitGroup
    iret,       \* what the last Tiingo.CalculateIndicators call returned
    iwrote,     \* ghost: the call has written an indicator value into a bar
    npass,      \* ghost: number of Tiingo.CalculateIndicators calls made
    now,        \* the hour of the day in UTC
    elapsed,    \* ghost: hours passed since NewBotWorker
    lpc,        \* position of the quote-refresh goroutine of NewBotWorker
    vpc,        \* position of the account-valuation goroutine of NewBotWorker
    latestPrices, \* BotWorker.latestPrices: ticker -> last quote
    live,       \* ghost: the current iteration of the quote-refresh loop
    nticks,     \* ghost: number of ticks of liveDownloader received
    fetched,    \* ghost: the last FetchCurrPrices call
    valued,     \* ghost: valuation passes made, calculateAccountValue goroutines started
    added,      \* ghost: the last Tiingo.AddTickers call and the watchlist before it
    other,      \* the Download* call of a second goroutine while that goroutine
                \* does not run: its pc, kind, snapshot, cursor, task, groupErr,
                \* saveErr, ret, atCall and failOrder
    reingested, \* ghost: the last merge of a daily download into a store that
                \* held the ticker: its arguments, the store before it and the
                \* number of CalculateIndicators calls made before it
    Cash,       \* Portfolio.Cash
    Holdings,   \* Portfolio.Holdings: ticker -> [NumShares, PurchaseValue]
    executed    \* ghost: the last Portfolio.Execute call: the transaction, the
                \* portfolio before it, what it returned, and their number

treeVars == <<root, model, nops>>
storeVars == <<Rows, Tickers, call, query, ncalls>>
dlVars == <<pc, kind, snapshot, cursor, task, groupErr, saveErr, ret, saves,
           crashed, mapWriting, spare, hd, nhd, atCall, failOrder>>
ingestVars == <<seen, prev, again, unpacked>>
watchVars == <<wproc, mu>>
cacheVars == <<disk, lastLoad, lastSave>>
indVars == <<Indicators, engine, ipc, todo, itask, wg, iret, iwrote, npass>>
botVars == <<now, elapsed, lpc, vpc, latestPrices, live, nticks, fetched, valued>>
addVars == <<added>>
callVars == <<other, reingested>>
portfolioVars == <<Cash, Holdings, executed>>
auxVars == <<ingestVars, watchVars, cacheVars, indVars, botVars, addVars, callVars, portfolioVars>>
notIngest == <<watchVars, botVars, addVars, callVars, portfolioVars, cacheVars, indVars>>
notWatch == <<ingestVars, cacheVars, indVars, botVars, addVars, callVars, portfolioVars>>
notCache == <<ingestVars, watchVars, botVars, addVars, callVars, portfolioVars, indVars>>
vars == <<treeVars, storeVars, dlVars, auxVars>>

-----------------------------------------------------------------------------
(***************************************************************************)
(* TreeSet (pkg/utils): a left-leaning red-black tree.  A nil link is Nil, *)
(* a node is a record.  The Go code mutates nodes in place; the tree has   *)
(* no sharing, so the functional update below is the same tree.            *)
(***************************************************************************)
RED   == TRUE
BLACK == FALSE

Nil == [nil |-> TRUE]

Node(v, l, r, c) == [value |-> v, left |-> l, right |-> r, color |-> c]

isRed(n) == IF n = Nil THEN FALSE ELSE n.color = RED

rotateLeft(n) ==
    LET x == n.right
        n1 == [n EXCEPT !.right = x.left, !.color = RED]
    IN  [x EXCEPT !.left = n1, !.color = n.color]

rotateRight(n) ==
    LET x == n.left
        n1 == [n EXCEPT !.left = x.right, !.color = RED]
    IN  [x EXCEPT !.right = n1, !.color = n.color]

\* sets n RED and both children BLACK (it assigns, it does not toggle)
flipColors(n) ==
    [n EXCEPT !.color = RED,
              !.left  = IF n.left  # Nil THEN [n.left  EXCEPT !.color = BLACK] ELSE Nil,
              !.right = IF n.right # Nil THEN [n.right EXCEPT !.color = BLACK] ELSE Nil]

\* the three fix-up steps shared by insert and balance, applied in order
fixLeanRight(n) ==
    IF n.right # Nil /\ isRed(n.right) /\ (n.left = Nil \/ ~isRed(n.left))
    THEN rotateLeft(n) ELSE n

fixDoubleLeft(n) ==
    IF n.left # Nil /\ isRed(n.left) /\ n.left.left # Nil /\ isRed(n.left.left)
    THEN rotateRight(n) ELSE n

fixBothRed(n) ==
    IF n.left # Nil /\ isRed(n.left) /\ n.right # Nil /\ isRed(n.right)
    THEN flipColors(n) ELSE n

RECURSIVE insert(_, _)
insert(n, value) ==
    IF n = Nil THEN Node(value, Nil, Nil, RED)
    ELSE LET n1 == IF value < n.value THEN [n EXCEPT !.left  = insert(n.left, value)]
                   ELSE IF value > n.value THEN [n EXCEPT !.right = insert(n.right, value)]
                   ELSE n
         IN  fixBothRed(fixDoubleLeft(fixLeanRight(n1)))

balance(n) ==
    IF n = Nil THEN Nil
    ELSE LET n1 == IF n.right # Nil /\ isRed(n.right) THEN rotateLeft(n) ELSE n
         IN  fixBothRed(fixDoubleLeft(n1))

moveRedLeft(n) ==
    LET n1 == flipColors(n)
    IN  IF n1.right # Nil /\ n1.right.left # Nil /\ isRed(n1.right.left)
        THEN flipColors(rotateLeft([n1 EXCEPT !.right = rotateRight(n1.right)]))
        ELSE n1

moveRedRight(n) ==
    LET n1 == flipColors(n)
    IN  IF n1.left # Nil /\ n1.left.left # Nil /\ isRed(n1.left.left)
        THEN flipColors(rotateRight(n1))
        ELSE n1

RECURSIVE min(_)
min(n) == IF n = Nil THEN Nil ELSE IF n.left = Nil THEN n ELSE min(n.left)

RECURSIVE deleteMin(_)
deleteMin(n) ==
    IF n = Nil THEN Nil
    ELSE IF n.left = Nil THEN Nil
    ELSE LET n1 == IF (n.left = Nil \/ ~isRed(n.left))
                      /\ (n.left.left = Nil \/ ~isRed(n.left.left))
                   THEN moveRedLeft(n) ELSE n
         IN  balance([n1 EXCEPT !.left = deleteMin(n1.left)])

\* delete's else-branch once h has been rotated/moved: value = h.value takes
\* the successor, otherwise the right subtree is descended (when present).
RECURSIVE delete(_, _)
delete(h, value) ==
    IF h = Nil THEN Nil
    ELSE IF value < h.value
    THEN LET h1 == IF (h.left = Nil \/ ~isRed(h.left))
                      /\ (h.left = Nil \/ h.left.left = Nil \/ ~isRed(h.left.left))
                   THEN moveRedLeft(h) ELSE h
             h2 == IF h1.left # Nil THEN [h1 EXCEPT !.left = delete(h1.left, value)]
                   ELSE h1
         IN  balance(h2)
    ELSE LET h1 == IF h.left # Nil /\ isRed(h.left) THEN rotateRight(h) ELSE h
         IN  IF value = h1.value /\ h1.right = Nil THEN Nil
             ELSE LET h2 == IF (h1.right = Nil \/ ~isRed(h1.right))
                               /\ (h1.right = Nil \/ h1.right.left = Nil
                                   \/ ~isRed(h1.right.left))
                            THEN moveRedRight(h1) ELSE h1
                      \* h2.right is a node when value = h2.value: field access
                      \* on Nil (a nil dereference in Go) would stop TLC.
                      h3 == IF value = h2.value
                            THEN [h2 EXCEPT !.value = min(h2.right).value,
                                            !.right = deleteMin(h2.right)]
                            ELSE IF h2.right # Nil
                                 THEN [h2 EXCEPT !.right = delete(h2.right, value)]
                                 ELSE h2
                  IN  balance(h3)

\* t.root.color = BLACK after each value of Insert / Remove
blacken(n) == IF n # Nil THEN [n EXCEPT !.color = BLACK] ELSE Nil

RECURSIVE InsertAll(_, _)
InsertAll(t, values) ==
    IF values = <<>> THEN t
    ELSE InsertAll(blacken(insert(t, Head(values))), Tail(values))

RECURSIVE RemoveAll(_, _)
RemoveAll(t, values) ==
    IF values = <<>> THEN t
    ELSE RemoveAll(blacken(delete(t, Head(values))), Tail(values))

RECURSIVE Contains(_, _)
Contains(x, value) ==
    IF x = Nil THEN FALSE
    ELSE IF value < x.value THEN Contains(x.left, value)
    ELSE IF value > x.value THEN Contains(x.right, value)
    ELSE TRUE

RECURSIVE AsSlice(_)
AsSlice(n) ==
    IF n = Nil THEN <<>>
    ELSE AsSlice(n.left) \o <<n.value>> \o AsSlice(n.right)

\* All() iterates over the snapshot AsSlice() returns
All(t) == AsSlice(t)

\* NewTreeSet
TreeStart ==
    /\ root = Nil
    /\ model = {}
    /\ nops = 0

-----------------------------------------------------------------------------
(***************************************************************************)
(* History (pkg/models/stock_data.go).  A Row is [Date, Data] with Data a  *)
(* function from the tickers that have a bar on that date to the bar.  Of  *)
(* the twelve numeric fields AddData copies from a PackedPeriod into a     *)
(* TickerPeriod the model keeps AdjClose; all are copied the same way.     *)
(* Go indices are 0-based: Go's h.Rows[i] is Rows[i + 1] here.             *)
(***************************************************************************)
Range(s) == {s[k] : k \in 1..Len(s)}

StrictlyAscending(s) == \A k \in 1..(Len(s) - 1) : s[k] < s[k + 1]

EmptyMap == [x \in {} |-> 0]

NewHistory == [Tickers |-> EmptyMap, Rows |-> <<>>]

NewRow(date) == [Date |-> date, Data |-> EmptyMap]

\* &TickerPeriod{p.Open, ..., make(map[string]float64)}
NewTickerPeriod(p) == [AdjClose |-> p.AdjClose, Indicators |-> EmptyMap]

\* a store that leaves the value of a key the map holds
MapStore_keepsStored(m, k, v) ==
    [x \in (DOMAIN m) \cup {k} |-> IF x \in DOMAIN m THEN m[x] ELSE v]

\* xsync.MapOf.Store / Go map assignment
MapStore(m, k, v) == [x \in (DOMAIN m) \cup {k} |-> IF x = k THEN v ELSE m[x]]

\* a slices.Insert that overwrites the element at idx when there is one
SlicesInsert_overwrites(s, idx, e) ==
    IF idx < Len(s) THEN [s EXCEPT ![idx + 1] = e] ELSE s \o <<e>>

\* slices.Insert(s, idx, e)
SlicesInsert(s, idx, e) == SubSeq(s, 1, idx) \o <<e>> \o SubSeq(s, idx + 1, Len(s))

\* bsearch returning left where the code returns right
RECURSIVE bsearch_returnsLeft(_, _, _, _, _)
bsearch_returnsLeft(rows, target, left, right, closest) ==
    IF left <= right
    THEN LET mid == left + ((right - left) \div 2)
         IN  IF rows[mid + 1].Date = target THEN [index |-> mid, row |-> mid]
             ELSE IF rows[mid + 1].Date < target
                  THEN bsearch_returnsLeft(rows, target, mid + 1, right, mid)
                  ELSE bsearch_returnsLeft(rows, target, left, mid - 1, closest)
    ELSE IF closest = -1 THEN [index |-> -1, row |-> -1]
         ELSE [index |-> left, row |-> closest]

\* the loop of GetClosestRowBefore; closest is the index of the row the
\* variable closest points to, -1 for nil
RECURSIVE bsearch(_, _, _, _, _)
bsearch(rows, target, left, right, closest) ==
    IF left <= right
    THEN LET mid == left + ((right - left) \div 2)
         IN  IF rows[mid + 1].Date = target THEN [index |-> mid, row |-> mid]
             ELSE IF rows[mid + 1].Date < target
                  THEN bsearch(rows, target, mid + 1, right, mid)
                  ELSE bsearch(rows, target, left, mid - 1, closest)
    ELSE IF closest = -1 THEN [index |-> -1, row |-> -1]
         ELSE [index |-> right, row |-> closest]

GetClosestRowBefore(rows, date) ==
    IF Len(rows) = 0 THEN [index |-> -1, row |-> -1]
    ELSE bsearch(rows, date, 0, Len(rows) - 1, -1)

\* a scan that also steps over the row dated as the bar
RECURSIVE scan_skipsEqualDate(_, _, _)
scan_skipsEqualDate(rows, i, date) ==
    IF Len(rows) > i /\ rows[i + 1].Date <= date
    THEN scan_skipsEqualDate(rows, i + 1, date) ELSE i

\* for len(h.Rows) > i && h.Rows[i].Date.Before(p.Date) { i++ }
RECURSIVE scan(_, _, _)
scan(rows, i, date) ==
    IF Len(rows) > i /\ rows[i + 1].Date < date THEN scan(rows, i + 1, date) ELSE i

\* AddPeriod inserting the new last row at index 0 instead of index i
AddPeriod_insertsAtFront(st, p, ticker) ==
    LET r1 == IF st.i = -1 THEN SlicesInsert(st.rows, 0, NewRow(p.Date)) ELSE st.rows
        i1 == IF st.i = -1 THEN 0 ELSE st.i
        i2 == scan(r1, i1, p.Date)
        r2 == IF i2 = Len(r1) THEN SlicesInsert(r1, 0, NewRow(p.Date)) ELSE r1
    IN  [rows |-> [r2 EXCEPT ![i2 + 1].Data = MapStore(@, ticker, NewTickerPeriod(p))],
         i    |-> i2]

\* one iteration of AddData's loop over periods, from cursor st.i
AddPeriod(st, p, ticker) ==
    LET r1 == IF st.i = -1 THEN SlicesInsert(st.rows, 0, NewRow(p.Date)) ELSE st.rows
        i1 == IF st.i = -1 THEN 0 ELSE st.i
        i2 == scan(r1, i1, p.Date)
        r2 == IF i2 = Len(r1) THEN SlicesInsert(r1, i2, NewRow(p.Date)) ELSE r1
    IN  [rows |-> [r2 EXCEPT ![i2 + 1].Data = MapStore(@, ticker, NewTickerPeriod(p))],
         i    |-> i2]

RECURSIVE AddPeriods(_, _, _)
AddPeriods(st, periods, ticker) ==
    IF periods = <<>> THEN st
    ELSE AddPeriods(AddPeriod(st, Head(periods), ticker), Tail(periods), ticker)

\* an AddData that records the ticker before it looks at the bars
AddData_recordsEmptyCall(h, periods, ticker) ==
    IF Len(periods) = 0
    THEN [h EXCEPT !.Tickers = MapStore(@, ticker, [Start |-> 0, End |-> 0])]
    ELSE LET meta == [Start |-> periods[1].Date, End |-> periods[Len(periods)].Date]
             i    == GetClosestRowBefore(h.Rows, periods[1].Date).index
         IN  [Tickers |-> MapStore(h.Tickers, ticker, meta),
              Rows    |-> AddPeriods([rows |-> h.Rows, i |-> i], periods, ticker).rows]

\* History.AddData, run without interference
AddData(h, periods, ticker) ==
    IF Len(periods) = 0 THEN h
    ELSE LET meta == [Start |-> periods[1].Date, End |-> periods[Len(periods)].Date]
             i    == GetClosestRowBefore(h.Rows, periods[1].Date).index
         IN  [Tickers |-> MapStore(h.Tickers, ticker, meta),
              Rows    |-> AddPeriods([rows |-> h.Rows, i |-> i], periods, ticker).rows]

\* a range over the entries of a map m that stores each into acc; keys are
\* the entries not visited yet
RECURSIVE CopyEntries(_, _, _)
CopyEntries(m, keys, acc) ==
    IF keys = {} THEN acc
    ELSE LET k == CHOOSE x \in keys : TRUE
         IN  CopyEntries(m, keys \ {k}, MapStore(acc, k, m[k]))

\* xsync.ToPlainMapOf: Range over the concurrent map into a new plain map
ToPlainMapOf(m) == CopyEntries(m, DOMAIN m, EmptyMap)

\* Row.Pack
PackRow(r) == [Date |-> r.Date, Data |-> ToPlainMapOf(r.Data)]

\* a PackedRow.Unpack that leaves the new concurrent map empty
UnpackRow_emptyData(pr) == [Date |-> pr.Date, Data |-> EmptyMap]

\* PackedRow.Unpack: a new concurrent map, every entry of pr.Data stored
UnpackRow(pr) == [Date |-> pr.Date, Data |-> CopyEntries(pr.Data, DOMAIN pr.Data, EmptyMap)]

\* History.Pack: Rows[i] = h.Rows[i].Pack() for i in range h.Rows
Pack(h) == [Tickers |-> h.Tickers, Rows |-> [i \in 1..Len(h.Rows) |-> PackRow(h.Rows[i])]]

\* PackedHistory.Unpack: Rows[i] = ph.Rows[i].Unpack() for i in range ph.Rows
Unpack(ph) == [Tickers |-> ph.Tickers, Rows |-> [i \in 1..Len(ph.Rows) |-> UnpackRow(ph.Rows[i])]]

-----------------------------------------------------------------------------
(***************************************************************************)
(* Inputs: the bars of one call are sorted ascending by date without       *)
(* duplicate dates, as the provider returns them.                          *)
(***************************************************************************)
Dates == 1..MaxDate
Prices == 1..MaxPrice

PackedPeriods == [Date : Dates, AdjClose : Prices]

SortedPeriodsUpTo(n) ==
    {ps \in UNION {[1..m -> PackedPeriods] : m \in 0..n} :
        \A k \in 1..(Len(ps) - 1) : ps[k].Date < ps[k + 1].Date}

SortedPeriods == SortedPeriodsUpTo(MaxBars)

NoCall == [periods |-> <<>>, ticker |-> 0]
NoQuery == [date |-> 0, index |-> -1, row |-> -1]

RowDates(rows) == [k \in 1..Len(rows) |-> rows[k].Date]

StoreStart ==
    /\ Rows = NewHistory.Rows
    /\ Tickers = NewHistory.Tickers
    /\ call = NoCall
    /\ query = NoQuery
    /\ ncalls = 0

NoRoundTrip == [done |-> FALSE, of |-> NewHistory, result |-> NewHistory]

Procs == {1, 2}     \* goroutines that call the watchlist TreeSet

NoOp == [op |-> "none", value |-> 0, pc |-> "idle", seen |-> Nil]

\* the zero value of sync.RWMutex: w is the goroutine holding the writer
\* mutex (0 for none), readers the number of read locks held
NewRWMutex == [w |-> 0, readers |-> 0]

IngestStart ==
    /\ seen = EmptyMap
    /\ prev = NewHistory
    /\ again = FALSE
    /\ unpacked = NoRoundTrip

WatchStart ==
    /\ wproc = [p \in Procs |-> NoOp]
    /\ mu = NewRWMutex

\* a file of the cache folder: missing, ok (data is the PackedHistory that
\* was written), unreadable (it cannot be opened), truncated (it does not
\* hold a complete encoded value) or mistyped (a complete value whose
\* "tickers" member decodes and whose "rows" member does not)
NoFile == [state |-> "missing", data |-> NewHistory]

NoLoad == [called |-> FALSE, flip |-> FALSE, useJSON |-> FALSE, nofiles |-> FALSE,
           failed |-> FALSE]

\* the ghost of the last LoadCaches call once something else has happened
Forgotten(l) == [NoLoad EXCEPT !.flip = l.flip]
NoSave == [called |-> FALSE, gobTried |-> FALSE, jsonTried |-> FALSE,
           gobFailed |-> FALSE, jsonFailed |-> FALSE, failed |-> FALSE]

\* first run: ./data does not exist
CacheStart ==
    /\ disk = [dir |-> "absent", gob |-> NoFile, json |-> NoFile]
    /\ lastLoad = NoLoad
    /\ lastSave = NoSave

\* a ticker the range loop of CalculateIndicators has not come to
NoIndTask == [state |-> "none", startIndex |-> -1, endIndex |-> -1, applied |-> 0,
              dones |-> 0, log |-> <<>>]

\* NewTiingo: make([]indicators.Indicator, 0); no call is running
IndicatorStart ==
    /\ Indicators = <<>>
    /\ engine = "pkg"
    /\ ipc = "idle"
    /\ todo = {}
    /\ itask = [t \in StoreSyms |-> NoIndTask]
    /\ wg = 0
    /\ iret = "none"
    /\ iwrote = FALSE
    /\ npass = 0

\* the ghost of one iteration of the quote-refresh loop: whether a tick of
\* liveDownloader started it, the hours its two clock readings gave (-1: not
\* read), the requests it sent to the provider, whether it assigned
\* latestPrices, whether the valuation loop took its hand-off
NoLive == [byTick |-> FALSE, h1 |-> -1, h2 |-> -1, requests |-> 0, assigned |-> FALSE,
           handedOff |-> FALSE]

\* the ghost of the last FetchCurrPrices call: the provider's status, what
\* the caller got and the watchlist before and after
NoFetch == [called |-> FALSE, status |-> "none", returned |-> "none",
            before |-> <<>>, after |-> <<>>]

\* no BotWorker has been constructed
BotStart ==
    /\ now = 0
    /\ elapsed = 0
    /\ lpc = "none"
    /\ vpc = "none"
    /\ latestPrices = EmptyMap
    /\ live = NoLive
    /\ nticks = 0
    /\ fetched = NoFetch
    /\ valued = [passes |-> 0, started |-> 0]

NoAdd == [called |-> FALSE, raw |-> 0, before |-> <<>>]

AddStart == added = NoAdd

NoTransaction == [Action |-> "none", Ticker |-> 0, NumShares |-> 0, UnitCost |-> 0]

NoExecute ==
    [count |-> 0, transaction |-> NoTransaction, result |-> "none",
     before |-> [Cash |-> 0, Holdings |-> EmptyMap]]

\* NewPortfolio(startingCash)
NewPortfolio(startingCash) == [Cash |-> startingCash, Holdings |-> EmptyMap]

PortfolioStart ==
    /\ Cash = NewPortfolio(MaxCash).Cash
    /\ Holdings = NewPortfolio(MaxCash).Holdings
    /\ executed = NoExecute

AuxStart ==
    IngestStart /\ WatchStart /\ CacheStart /\ IndicatorStart /\ BotStart /\ AddStart /\ PortfolioStart

-----------------------------------------------------------------------------
(***************************************************************************)
(* Tiingo service (pkg/services/tiingo.go).                                *)
(*                                                                         *)
(* A raw ticker string is a symbol s (upper case) or -s (the same letters  *)
(* in lower case).  A provider response is a status and, for "ok", the     *)
(* decoded bars.  A transport or decode failure returns an error without   *)
(* touching anything, as status "other" does.                              *)
(*                                                                         *)
(* The fetch tasks of one Download* call run as goroutines.  AddData takes *)
(* no lock, so its statements interleave: a task's steps below are the     *)
(* assignment to the map h.Tickers (two steps, the Go runtime aborts the   *)
(* process when a map is written while another goroutine writes or reads   *)
(* it), GetClosestRowBefore, the scan of the cursor, slices.Insert (which  *)
(* works on the slice header h.Rows it was passed: task.n is that header's *)
(* length; NewHistory allocates capacity for 1825 rows, so Insert moves    *)
(* the elements in place) and the store into the row's concurrent map.     *)
(***************************************************************************)
DLSyms == {1, 2}                       \* the tickers that can be watched
Slots == 1..Cardinality(DLSyms)        \* iterations of the range loop
RawTickers == DLSyms \cup {-x : x \in DLSyms}
Unwatched == Cardinality(DLSyms) + 1   \* a ticker that is never watched

\* a ToUpper that keeps the letter case
ToUpper_keepsCase(x) == x

\* strings.ToUpper
ToUpper(x) == IF x < 0 THEN -x ELSE x

None == [ticker |-> 0, status |-> "nil"]
SaveError == [ticker |-> 0, status |-> "save"]

\* fmt.Errorf(response.Status + " when fetching " + ticker)
FetchError(ticker, status) == [ticker |-> ticker, status |-> status]

Statuses == {"ok", "notfound", "other"}

\* the bars a response can carry: the claims about the download do not
\* depend on prices, every bar has the same AdjClose
FetchedPeriods ==
    {ps \in SortedPeriodsUpTo(MaxFetch) : \A k \in 1..Len(ps) : ps[k].AdjClose = MaxPrice}

Responses ==
    {r \in [status : Statuses, periods : FetchedPeriods] :
        r.status # "ok" => r.periods = <<>>}

NoTask == [st |-> "none", ticker |-> 0, status |-> "none", periods |-> <<>>,
           i |-> 0, k |-> 0, n |-> 0]
NoHD == [ticker |-> 0, status |-> "none", err |-> None, watched |-> FALSE]

\* the watchlist after a response: if response.StatusCode == StatusNotFound
\* { t.tickers.Remove(ticker) }, on any other non-OK status
WatchlistAfter_removesOnAnyError(tree, ticker, status) ==
    IF status # "ok" THEN RemoveAll(tree, <<ticker>>) ELSE tree

\* the watchlist after a response: t.tickers.Remove(ticker) on StatusNotFound
WatchlistAfter(tree, ticker, status) ==
    IF status = "notfound" THEN RemoveAll(tree, <<ticker>>) ELSE tree

\* errgroup: errOnce.Do(func() { g.err = err })
recordErr(g, err) == IF g = None THEN err ELSE g

\* every closure reads one loop variable shared by all iterations
CapturedTicker_sharedLoopVariable(values, c) == values[Len(values)]

\* the closure passed to errs.Go captures the loop variable of its iteration
CapturedTicker(values, c) == values[c]

\* a Wait that returns as soon as one goroutine has returned
AllTasksFinished_firstReturn(tasks) ==
    \/ \E sl \in Slots : tasks[sl].st = "done"
    \/ \A sl \in Slots : tasks[sl].st = "none"

\* errs.Wait(): wg.Wait() returns when every started goroutine has returned
AllTasksFinished(tasks) == \A sl \in Slots : tasks[sl].st \in {"none", "done"}

\* the fetch error returned in preference to the save error
DownloadResult_fetchErrorFirst(fetchErr, sErr) == IF fetchErr # None THEN fetchErr ELSE sErr

\* if err := t.SaveCaches(); err != nil { return err }; return err
DownloadResult(fetchErr, sErr) == IF sErr # None THEN sErr ELSE fetchErr

\* slices.Insert(s, idx, row) on a header of length n over the backing array
\* full: elements idx..n-1 move up by one, row lands at idx, what lies past
\* n stays
RacyInsert(full, n, idx, row) ==
    SlicesInsert(SubSeq(full, 1, n), idx, row) \o SubSeq(full, n + 2, Len(full))

\* a Download* call that has not started
IdleCall ==
    [pc |-> "idle", kind |-> "none", snapshot |-> <<>>, cursor |-> 0,
     task |-> [sl \in Slots |-> NoTask], groupErr |-> None, saveErr |-> None,
     ret |-> None, atCall |-> NewHistory, failOrder |-> <<>>]

NoReingest ==
    [done |-> FALSE, ticker |-> 0, periods |-> <<>>, before |-> NewHistory, npass |-> 0]

DownloadStart ==
    /\ pc = "idle"
    /\ other = IdleCall
    /\ reingested = NoReingest
    /\ kind = "none"
    /\ snapshot = <<>>
    /\ cursor = 0
    /\ task = [sl \in Slots |-> NoTask]
    /\ groupErr = None
    /\ saveErr = None
    /\ ret = None
    /\ saves = 0
    /\ crashed = FALSE
    /\ mapWriting = FALSE
    /\ spare = <<>>
    /\ hd = NoHD
    /\ nhd = 0
    /\ atCall = NewHistory
    /\ failOrder = <<>>

ghostVars == <<model, nops, call, query, ncalls>>

\* Tiingo.AddTickers
AddTickers(raw) ==
    /\ pc = "idle"
    /\ root' = InsertAll(root, <<ToUpper(raw)>>)
    /\ added' = [called |-> TRUE, raw |-> raw, before |-> AsSlice(root)]
    /\ UNCHANGED <<ingestVars, watchVars, cacheVars, indVars, botVars, callVars, portfolioVars>>
    /\ UNCHANGED <<ghostVars, Rows, Tickers, dlVars>>

\* Tiingo.HistoricalDaily called on its own, nothing else running
HistoricalDaily(ticker, resp) ==
    /\ pc = "idle"
    /\ nhd < MaxDirect
    /\ nhd' = nhd + 1
    /\ IF resp.status = "ok"
       THEN LET h == AddData([Tickers |-> Tickers, Rows |-> Rows], resp.periods, ticker)
            IN  /\ Rows' = h.Rows
                /\ Tickers' = h.Tickers
                /\ root' = root
                /\ hd' = [ticker |-> ticker, status |-> "ok", err |-> None,
                          watched |-> Contains(root, ticker)]
       ELSE /\ root' = WatchlistAfter(root, ticker, resp.status)
            /\ hd' = [ticker |-> ticker, status |-> resp.status,
                      err |-> FetchError(ticker, resp.status),
                      watched |-> Contains(root, ticker)]
            /\ UNCHANGED <<Rows, Tickers>>
    /\ UNCHANGED <<auxVars, ghostVars, pc, kind, snapshot, cursor, task, groupErr, saveErr,
                   ret, saves, crashed, mapWriting, spare, atCall, failOrder>>

\* DownloadMissingTickers / DownloadAllTickers up to the range loop: All()
\* takes its snapshot of the watchlist
StartDownload(kd) ==
    /\ pc = "idle"
    /\ kind' = kd
    /\ snapshot' = All(root)
    /\ cursor' = 1
    /\ pc' = IF Len(All(root)) = 0 THEN "wait" ELSE "loop"
    /\ atCall' = [Tickers |-> Tickers, Rows |-> Rows]
    /\ UNCHANGED <<auxVars, treeVars, storeVars, task, groupErr, saveErr, ret, saves,
                   crashed, mapWriting, spare, hd, nhd, failOrder>>

\* one iteration of the range loop: DownloadMissingTickers looks the ticker
\* up in DailyCache.Tickers and starts a task when it has no entry,
\* DownloadAllTickers starts a task for every ticker
LoopStep ==
    /\ pc = "loop"
    /\ ~crashed
    /\ IF kind = "missing" /\ mapWriting
       THEN /\ crashed' = TRUE
            /\ UNCHANGED <<task, cursor, pc>>
       ELSE /\ task' = IF kind = "all" \/ snapshot[cursor] \notin DOMAIN Tickers
                       THEN [task EXCEPT ![cursor] =
                               [NoTask EXCEPT !.st = "request",
                                              !.ticker = CapturedTicker(snapshot, cursor)]]
                       ELSE task
            /\ cursor' = cursor + 1
            /\ pc' = IF cursor = Len(snapshot) THEN "wait" ELSE "loop"
            /\ UNCHANGED crashed
    /\ UNCHANGED <<auxVars, treeVars, storeVars, kind, snapshot, groupErr, saveErr, ret,
                   saves, mapWriting, spare, hd, nhd, atCall, failOrder>>

\* a task returns err: the goroutine wrapper of errgroup records it
Finish(sl, t, err) ==
    /\ task' = [task EXCEPT ![sl] = [t EXCEPT !.st = "done", !.i = 0, !.k = 0, !.n = 0]]
    /\ groupErr' = recordErr(groupErr, err)
    /\ failOrder' = IF err # None THEN Append(failOrder, err) ELSE failOrder

\* HistoricalDaily in a task, from the request to the call of AddData
TaskRespond(sl, resp) ==
    /\ ~crashed
    /\ task[sl].st = "request"
    /\ LET t == [task[sl] EXCEPT !.status = resp.status, !.periods = resp.periods]
       IN  IF resp.status = "ok" /\ Len(resp.periods) > 0
           THEN /\ task' = [task EXCEPT ![sl] = [t EXCEPT !.st = "meta"]]
                /\ UNCHANGED <<root, groupErr, failOrder>>
           ELSE /\ Finish(sl, t, IF resp.status = "ok" THEN None
                                 ELSE FetchError(t.ticker, resp.status))
                /\ root' = WatchlistAfter(root, t.ticker, resp.status)
    /\ UNCHANGED <<auxVars, ghostVars, Rows, Tickers, pc, kind, snapshot, cursor, saveErr,
                   ret, saves, crashed, mapWriting, spare, hd, nhd, atCall>>

\* AddData: h.Tickers[ticker] = TickerMeta{...}, entering the map write
TaskMetaBegin(sl) ==
    /\ ~crashed
    /\ task[sl].st = "meta"
    /\ LET t == task[sl]
       IN  IF mapWriting
           THEN /\ crashed' = TRUE
                /\ UNCHANGED <<Tickers, mapWriting, task>>
           ELSE /\ Tickers' = MapStore(Tickers, t.ticker,
                                [Start |-> t.periods[1].Date,
                                 End   |-> t.periods[Len(t.periods)].Date])
                /\ mapWriting' = TRUE
                /\ task' = [task EXCEPT ![sl].st = "metaW"]
                /\ UNCHANGED crashed
    /\ UNCHANGED <<auxVars, treeVars, Rows, call, query, ncalls, pc, kind, snapshot, cursor,
                   groupErr, saveErr, ret, saves, spare, hd, nhd, atCall, failOrder>>

\* AddData: the map write is complete
TaskMetaEnd(sl) ==
    /\ ~crashed
    /\ task[sl].st = "metaW"
    /\ mapWriting' = FALSE
    /\ task' = [task EXCEPT ![sl].st = "search"]
    /\ UNCHANGED <<auxVars, treeVars, storeVars, pc, kind, snapshot, cursor, groupErr,
                   saveErr, ret, saves, crashed, spare, hd, nhd, atCall, failOrder>>

\* AddData: i, _ := h.GetClosestRowBefore(periods[0].Date); with i == -1 the
\* first iteration calls slices.Insert(h.Rows, 0, ...)
TaskSearch(sl) ==
    /\ ~crashed
    /\ task[sl].st = "search"
    /\ LET t == task[sl]
           i == GetClosestRowBefore(Rows, t.periods[1].Date).index
       IN  task' = [task EXCEPT ![sl] =
                      [t EXCEPT !.i = i, !.k = 1,
                                !.n = IF i = -1 THEN Len(Rows) ELSE 0,
                                !.st = IF i = -1 THEN "insfront" ELSE "scan"]]
    /\ UNCHANGED <<auxVars, treeVars, storeVars, pc, kind, snapshot, cursor, groupErr,
                   saveErr, ret, saves, crashed, mapWriting, spare, hd, nhd,
                   atCall, failOrder>>

\* AddData: h.Rows = slices.Insert(h.Rows, 0, &Row{p.Date, ...}); i++
TaskInsertFront(sl) ==
    /\ ~crashed
    /\ task[sl].st = "insfront"
    /\ LET t == task[sl]
           full == RacyInsert(Rows \o spare, t.n, 0, NewRow(t.periods[t.k].Date))
       IN  /\ Rows' = SubSeq(full, 1, t.n + 1)
           /\ spare' = SubSeq(full, t.n + 2, Len(full))
           /\ task' = [task EXCEPT ![sl] = [t EXCEPT !.i = 0, !.n = 0, !.st = "scan"]]
    /\ UNCHANGED <<auxVars, treeVars, Tickers, call, query, ncalls, pc, kind, snapshot,
                   cursor, groupErr, saveErr, ret, saves, crashed, mapWriting, hd,
                   nhd, atCall, failOrder>>

\* AddData: the for loop that advances i, then the test i == len(h.Rows)
TaskScan(sl) ==
    /\ ~crashed
    /\ task[sl].st = "scan"
    /\ LET t == task[sl]
           i == scan(Rows, t.i, t.periods[t.k].Date)
       IN  task' = [task EXCEPT ![sl] =
                      [t EXCEPT !.i = i,
                                !.n = IF i = Len(Rows) THEN Len(Rows) ELSE 0,
                                !.st = IF i = Len(Rows) THEN "append" ELSE "store"]]
    /\ UNCHANGED <<auxVars, treeVars, storeVars, pc, kind, snapshot, cursor, groupErr,
                   saveErr, ret, saves, crashed, mapWriting, spare, hd, nhd,
                   atCall, failOrder>>

\* AddData: h.Rows = slices.Insert(h.Rows, i, &Row{p.Date, ...})
TaskAppend(sl) ==
    /\ ~crashed
    /\ task[sl].st = "append"
    /\ LET t == task[sl]
           full == RacyInsert(Rows \o spare, t.n, t.i, NewRow(t.periods[t.k].Date))
       IN  /\ Rows' = SubSeq(full, 1, t.n + 1)
           /\ spare' = SubSeq(full, t.n + 2, Len(full))
           /\ task' = [task EXCEPT ![sl] = [t EXCEPT !.n = 0, !.st = "store"]]
    /\ UNCHANGED <<auxVars, treeVars, Tickers, call, query, ncalls, pc, kind, snapshot,
                   cursor, groupErr, saveErr, ret, saves, crashed, mapWriting, hd,
                   nhd, atCall, failOrder>>

\* AddData: h.Rows[i].Data.Store(ticker, &TickerPeriod{...}); an index past
\* the current length is a run-time panic.  After the last bar the task
\* returns nil.
TaskStore(sl) ==
    /\ ~crashed
    /\ task[sl].st = "store"
    /\ LET t == task[sl]
       IN  IF t.i >= Len(Rows)
           THEN /\ crashed' = TRUE
                /\ UNCHANGED <<Rows, task, groupErr, failOrder>>
           ELSE /\ Rows' = [Rows EXCEPT ![t.i + 1].Data =
                              MapStore(@, t.ticker, NewTickerPeriod(t.periods[t.k]))]
                /\ IF t.k = Len(t.periods)
                   THEN Finish(sl, t, None)
                   ELSE /\ task' = [task EXCEPT ![sl] =
                                      [t EXCEPT !.k = t.k + 1, !.st = "scan"]]
                        /\ UNCHANGED <<groupErr, failOrder>>
                /\ UNCHANGED crashed
    /\ UNCHANGED <<auxVars, treeVars, Tickers, call, query, ncalls, pc, kind, snapshot,
                   cursor, saveErr, ret, saves, mapWriting, spare, hd, nhd, atCall>>

\* err := errs.Wait()
WaitStep ==
    /\ ~crashed
    /\ pc = "wait"
    /\ AllTasksFinished(task)
    /\ pc' = "save"
    /\ UNCHANGED <<auxVars, treeVars, storeVars, kind, snapshot, cursor, task, groupErr,
                   saveErr, ret, saves, crashed, mapWriting, spare, hd, nhd,
                   atCall, failOrder>>

\* t.SaveCaches() and the return of the Download* call
SaveStep(sErr) ==
    /\ ~crashed
    /\ pc = "save"
    /\ saves' = saves + 1
    /\ saveErr' = sErr
    /\ ret' = DownloadResult(groupErr, sErr)
    /\ pc' = "done"
    /\ UNCHANGED <<auxVars, treeVars, storeVars, kind, snapshot, cursor, task, groupErr,
                   crashed, mapWriting, spare, hd, nhd, atCall, failOrder>>

-----------------------------------------------------------------------------
(***************************************************************************)
(* SpecDownload: on a store that earlier ingests have filled, tickers are   *)
(* added to the watchlist, then one DownloadMissingTickers or              *)
(* DownloadAllTickers call runs with its fetch tasks.                      *)
(***************************************************************************)
\* the stores one earlier ingest leaves: of a watched ticker, or of a ticker
\* that is not watched any more
EarlierStores ==
    {AddData(NewHistory, ps, t) :
        ps \in {qs \in SortedPeriods : \A k \in 1..Len(qs) : qs[k].AdjClose = MaxPrice},
        t \in DLSyms \cup {Unwatched}}

InitDownload ==
    /\ TreeStart
    /\ DownloadStart
    /\ \E h \in EarlierStores : Rows = h.Rows /\ Tickers = h.Tickers
    /\ call = NoCall
    /\ query = NoQuery
    /\ ncalls = 0
    /\ AuxStart

NextDownload ==
    \/ \E raw \in RawTickers : AddTickers(raw)
    \/ \E kd \in {"missing", "all"} : StartDownload(kd)
    \/ LoopStep
    \/ \E sl \in Slots, r \in Responses : TaskRespond(sl, r)
    \/ \E sl \in Slots : TaskMetaBegin(sl)
    \/ \E sl \in Slots : TaskMetaEnd(sl)
    \/ \E sl \in Slots : TaskSearch(sl)
    \/ \E sl \in Slots : TaskInsertFront(sl)
    \/ \E sl \in Slots : TaskScan(sl)
    \/ \E sl \in Slots : TaskAppend(sl)
    \/ \E sl \in Slots : TaskStore(sl)
    \/ WaitStep
    \/ \E e \in {None, SaveError} : SaveStep(e)

SpecDownload == InitDownload /\ [][NextDownload]_vars

-----------------------------------------------------------------------------
(***************************************************************************)
(* SpecFetch: tickers are added to the watchlist and HistoricalDaily is    *)
(* called for single tickers, one call after another.                      *)
(***************************************************************************)
InitFetch == TreeStart /\ StoreStart /\ DownloadStart /\ AuxStart

NextFetch ==
    \/ \E raw \in RawTickers : AddTickers(raw)
    \/ \E s \in DLSyms \cup {Unwatched}, r \in Responses : HistoricalDaily(s, r)

SpecFetch == InitFetch /\ [][NextFetch]_vars

-----------------------------------------------------------------------------
(***************************************************************************)
(* SpecStore: AddData calls one after another on a store that starts       *)
(* empty.                                                                  *)
(***************************************************************************)
InitStore == StoreStart /\ TreeStart /\ DownloadStart /\ AuxStart

AddDataCall(periods, ticker) ==
    /\ ncalls < MaxCalls
    /\ LET h == AddData([Tickers |-> Tickers, Rows |-> Rows], periods, ticker)
       IN  /\ Rows' = h.Rows
           /\ Tickers' = h.Tickers
    /\ call' = [periods |-> periods, ticker |-> ticker]
    /\ ncalls' = ncalls + 1
    /\ UNCHANGED <<auxVars, query, treeVars, dlVars>>

NextStore == \E ps \in SortedPeriods, t \in StoreSyms : AddDataCall(ps, t)

SpecStore == InitStore /\ [][NextStore]_vars

-----------------------------------------------------------------------------
(***************************************************************************)
(* SpecIngest: AddData calls one after another on a store that starts      *)
(* empty, where a call may repeat the call before it with the same bars,   *)
(* and the store is packed and unpacked again between calls.               *)
(***************************************************************************)
InitIngest == StoreStart /\ TreeStart /\ DownloadStart /\ AuxStart

\* the dates of periods added to what has been ingested for ticker
Ingested(sn, periods, ticker) ==
    IF Len(periods) = 0 THEN sn
    ELSE MapStore(sn, ticker,
                  (IF ticker \in DOMAIN sn THEN sn[ticker] ELSE {})
                     \cup {periods[k].Date : k \in 1..Len(periods)})

\* the bars of one call: the claims checked here do not depend on prices,
\* every bar has the same AdjClose
IngestPeriods == {ps \in SortedPeriods : \A k \in 1..Len(ps) : ps[k].AdjClose = MaxPrice}

IngestCall(periods, ticker) ==
    /\ ncalls < MaxIngest
    /\ LET h == AddData([Tickers |-> Tickers, Rows |-> Rows], periods, ticker)
       IN  /\ Rows' = h.Rows
           /\ Tickers' = h.Tickers
    /\ call' = [periods |-> periods, ticker |-> ticker]
    /\ ncalls' = ncalls + 1
    /\ seen' = Ingested(seen, periods, ticker)
    /\ prev' = NewHistory
    /\ again' = FALSE
    /\ unpacked' = NoRoundTrip
    /\ UNCHANGED <<notIngest, query, treeVars, dlVars>>

\* AddData called once more with the arguments of the call before
IngestAgain ==
    /\ ncalls < MaxIngest
    /\ call # NoCall
    /\ LET h == AddData([Tickers |-> Tickers, Rows |-> Rows], call.periods, call.ticker)
       IN  /\ Rows' = h.Rows
           /\ Tickers' = h.Tickers
    /\ ncalls' = ncalls + 1
    /\ seen' = Ingested(seen, call.periods, call.ticker)
    /\ prev' = [Tickers |-> Tickers, Rows |-> Rows]
    /\ again' = TRUE
    /\ unpacked' = NoRoundTrip
    /\ UNCHANGED <<notIngest, call, query, treeVars, dlVars>>

\* h.Pack().Unpack()
RoundTrip ==
    /\ LET h == [Tickers |-> Tickers, Rows |-> Rows]
       IN  unpacked' = [done |-> TRUE, of |-> h, result |-> Unpack(Pack(h))]
    /\ UNCHANGED <<notIngest, seen, prev, again, storeVars, treeVars, dlVars>>

NextIngest ==
    \/ \E ps \in IngestPeriods, t \in StoreSyms : IngestCall(ps, t)
    \/ IngestAgain
    \/ RoundTrip

SpecIngest == InitIngest /\ [][NextIngest]_vars

-----------------------------------------------------------------------------
(***************************************************************************)
(* The watchlist TreeSet called from several goroutines: the fetch tasks   *)
(* (Remove on a not-found response), the request handlers (AddTickers ->   *)
(* Insert), the Download* loops (All) and FetchCurrPrices (AsSlice).       *)
(*                                                                         *)
(* An operation is in the tree from the moment it reads t.root (wproc.seen *)
(* is the tree it read) until it has finished its traversal or written     *)
(* t.root back.                                                            *)
(*                                                                         *)
(* SpecWatch is the TreeSet of pkg/utils, whose operations take t.mu.      *)
(* sync.RWMutex: Lock takes the writer mutex, which makes later RLock      *)
(* calls wait, then waits until the read locks held have been released.    *)
(* SpecWatchMain is the TreeSet of package main (server/treeset.go), which *)
(* has no mutex; its All is an iterator that walks the tree while the      *)
(* range loop that consumes it runs.                                       *)
(***************************************************************************)
Writers == {"Insert", "Remove"}
Readers == {"Contains", "All", "AsSlice"}
WatchValues == DLSyms \cup {Unwatched}

\* the operations a goroutine can call, with their argument
WatchCalls ==
    {[op |-> o, value |-> v] : o \in Writers \cup {"Contains"}, v \in WatchValues}
        \cup {[op |-> o, value |-> 0] : o \in {"All", "AsSlice"}}

\* what a writer leaves in t.root: t.root = t.insert(t.root, value) /
\* t.root = t.delete(t.root, value), from the tree it read
Written(w) ==
    IF w.op = "Insert" THEN InsertAll(w.seen, <<w.value>>)
    ELSE IF w.op = "Remove" THEN RemoveAll(w.seen, <<w.value>>)
    ELSE w.seen

\* a goroutine calls an operation of the pkg/utils TreeSet
Call(p, c) ==
    /\ wproc[p].pc = "idle"
    /\ wproc' = [wproc EXCEPT ![p] = [op |-> c.op, value |-> c.value, pc |-> "lock", seen |-> Nil]]
    /\ UNCHANGED <<mu, notWatch, treeVars, storeVars, dlVars>>

\* Insert / Remove: t.mu.Lock(), first part: the writer mutex
Lock(p) ==
    /\ wproc[p].pc = "lock"
    /\ wproc[p].op \in Writers
    /\ mu.w = 0
    /\ mu' = [mu EXCEPT !.w = p]
    /\ wproc' = [wproc EXCEPT ![p].pc = "drain"]
    /\ UNCHANGED <<notWatch, treeVars, storeVars, dlVars>>

\* a Lock that does not wait for the read locks held to be released
LockAcquired_withoutDrain(p) ==
    /\ wproc[p].pc = "drain"
    /\ wproc' = [wproc EXCEPT ![p].pc = "in", ![p].seen = root]
    /\ UNCHANGED <<mu, notWatch, treeVars, storeVars, dlVars>>

\* t.mu.Lock(), second part: the readers have left; the writer reads t.root
LockAcquired(p) ==
    /\ wproc[p].pc = "drain"
    /\ mu.readers = 0
    /\ wproc' = [wproc EXCEPT ![p].pc = "in", ![p].seen = root]
    /\ UNCHANGED <<mu, notWatch, treeVars, storeVars, dlVars>>

\* Contains / AsSlice: t.mu.RLock(); All: its own t.mu.RLock() and then
\* the t.mu.RLock() of the AsSlice it calls
RLock(p) ==
    /\ wproc[p].pc \in {"lock", "lock2"}
    /\ wproc[p].op \in Readers
    /\ mu.w = 0
    /\ mu' = [mu EXCEPT !.readers = @ + 1]
    /\ wproc' = IF wproc[p].op = "All" /\ wproc[p].pc = "lock"
                THEN [wproc EXCEPT ![p].pc = "lock2"]
                ELSE [wproc EXCEPT ![p].pc = "in", ![p].seen = root]
    /\ UNCHANGED <<notWatch, treeVars, storeVars, dlVars>>

\* the body of the operation is over: a writer has assigned t.root
Body(p) ==
    /\ wproc[p].pc = "in"
    /\ root' = IF wproc[p].op \in Writers THEN Written(wproc[p]) ELSE root
    /\ wproc' = [wproc EXCEPT ![p].pc = "unlock"]
    /\ UNCHANGED <<mu, model, nops, notWatch, storeVars, dlVars>>

\* the deferred t.mu.Unlock() / t.mu.RUnlock(); All releases the lock of
\* AsSlice and then its own
Unlock(p) ==
    /\ wproc[p].pc \in {"unlock", "unlock2"}
    /\ mu' = IF wproc[p].op \in Writers THEN [mu EXCEPT !.w = 0]
             ELSE [mu EXCEPT !.readers = @ - 1]
    /\ wproc' = IF wproc[p].op = "All" /\ wproc[p].pc = "unlock"
                THEN [wproc EXCEPT ![p].pc = "unlock2"]
                ELSE [wproc EXCEPT ![p] = NoOp]
    /\ UNCHANGED <<notWatch, treeVars, storeVars, dlVars>>

InitWatch == TreeStart /\ StoreStart /\ DownloadStart /\ AuxStart

NextWatch ==
    \/ \E p \in Procs, c \in WatchCalls : Call(p, c)
    \/ \E p \in Procs : Lock(p)
    \/ \E p \in Procs : LockAcquired(p)
    \/ \E p \in Procs : RLock(p)
    \/ \E p \in Procs : Body(p)
    \/ \E p \in Procs : Unlock(p)

SpecWatch == InitWatch /\ [][NextWatch]_vars

\* the steps of a goroutine inside a TreeSet operation
WatchStep(p) == Lock(p) \/ LockAcquired(p) \/ RLock(p) \/ Body(p) \/ Unlock(p)

\* the scheduler runs every goroutine that can take a step
SpecWatchLive ==
    InitWatch /\ [][NextWatch]_vars /\ \A p \in Procs : WF_vars(WatchStep(p))

\* a goroutine calls an operation of the TreeSet of package main: it reads
\* t.root at once
MainCall(p, c) ==
    /\ wproc[p].pc = "idle"
    /\ wproc' = [wproc EXCEPT ![p] = [op |-> c.op, value |-> c.value, pc |-> "in", seen |-> root]]
    /\ UNCHANGED <<mu, notWatch, treeVars, storeVars, dlVars>>

\* the operation returns (for All: the range loop over the iterator ends);
\* a writer has assigned t.root
MainReturn(p) ==
    /\ wproc[p].pc = "in"
    /\ root' = IF wproc[p].op \in Writers THEN Written(wproc[p]) ELSE root
    /\ wproc' = [wproc EXCEPT ![p] = NoOp]
    /\ UNCHANGED <<mu, model, nops, notWatch, storeVars, dlVars>>

NextWatchMain ==
    \/ \E p \in Procs, c \in WatchCalls : MainCall(p, c)
    \/ \E p \in Procs : MainReturn(p)

SpecWatchMain == InitWatch /\ [][NextWatchMain]_vars

-----------------------------------------------------------------------------
(***************************************************************************)
(* The cache files (LoadCaches, SaveCaches of pkg/services/tiingo.go).     *)
(*                                                                         *)
(* SaveCaches writes t.DailyCache.Pack() with encoding/gob and with        *)
(* encoding/json; a file that was written completely holds that            *)
(* PackedHistory.  LoadCaches(false) decodes the gob file into a new       *)
(* PackedHistory and unpacks it.  LoadCaches(true) hands &t.DailyCache to  *)
(* the JSON decoder, which checks the syntax of the whole value first and  *)
(* then fills the History that t.DailyCache points to member by member:    *)
(* the entries of "tickers" are stored into the existing map, "rows"       *)
(* replaces the slice.                                                     *)
(***************************************************************************)
FileStates == {"missing", "ok", "unreadable", "truncated", "mistyped"}

\* the ticker whose bars are in the store: the cache calls treat all alike
CacheSym == CHOOSE t \in StoreSyms : TRUE

\* entries of m stored into the map acc
MergeMap(acc, m) == CopyEntries(m, DOMAIN m, acc)

\* json.NewDecoder(read).Decode(&t.DailyCache) on a file that can be opened:
\* the store it leaves and whether it returns an error
JSONDecodeInto(h, file) ==
    IF file.state = "ok"
    THEN [failed |-> FALSE,
          h |-> [Tickers |-> MergeMap(h.Tickers, file.data.Tickers),
                 Rows |-> [i \in 1..Len(file.data.Rows) |-> UnpackRow(file.data.Rows[i])]]]
    ELSE IF file.state = "mistyped"
    THEN [failed |-> TRUE,
          h |-> [Tickers |-> MergeMap(h.Tickers, file.data.Tickers), Rows |-> h.Rows]]
    ELSE [failed |-> TRUE, h |-> h]

\* the JSON branch of LoadCaches after os.Mkdir: os.Stat tells a missing
\* file, os.Open fails on an unreadable one
LoadJSON(h, file) ==
    IF file.state = "missing" THEN [failed |-> FALSE, h |-> h]
    ELSE IF file.state = "unreadable" THEN [failed |-> TRUE, h |-> h]
    ELSE JSONDecodeInto(h, file)

\* the gob branch of LoadCaches: os.OpenFile, gob Decode into a new
\* PackedHistory, t.DailyCache = packed.Unpack()
LoadGOB(h, file) ==
    IF file.state = "ok" THEN [failed |-> FALSE, h |-> Unpack(file.data)]
    ELSE [failed |-> TRUE, h |-> h]

\* Tiingo.LoadCaches(useJSON); os.Mkdir failing for another reason than an
\* existing folder ends the process (log.Fatal)
LoadCaches(useJSON) ==
    /\ ~crashed
    /\ IF useJSON /\ disk.dir = "blocked"
       THEN /\ crashed' = TRUE
            /\ lastLoad' = Forgotten(lastLoad)
            /\ UNCHANGED <<Rows, Tickers, disk>>
       ELSE LET h == [Tickers |-> Tickers, Rows |-> Rows]
                r == IF useJSON THEN LoadJSON(h, disk.json) ELSE LoadGOB(h, disk.gob)
            IN  /\ Rows' = r.h.Rows
                /\ Tickers' = r.h.Tickers
                /\ disk' = IF useJSON THEN [disk EXCEPT !.dir = "present"] ELSE disk
                /\ lastLoad' = [called |-> TRUE, flip |-> ~lastLoad.flip,
                                useJSON |-> useJSON,
                                nofiles |-> disk.gob.state = "missing"
                                            /\ disk.json.state = "missing",
                                failed |-> r.failed]
                /\ UNCHANGED crashed
    /\ lastSave' = NoSave
    /\ UNCHANGED <<notCache, treeVars, call, query, ncalls, pc, kind, snapshot,
                   cursor, task, groupErr, saveErr, ret, saves, mapWriting, spare, hd,
                   nhd, atCall, failOrder>>

\* what a write of SaveCaches leaves of a file: how is "ok", "openfails"
\* (the file cannot be opened for writing) or "writefails" (it was opened,
\* which empties it, and the write broke off)
FileWritten(file, how, packed) ==
    IF how = "ok" THEN [state |-> "ok", data |-> packed]
    ELSE IF how = "writefails" THEN [state |-> "truncated", data |-> NewHistory]
    ELSE file

WriteOutcomes == {"ok", "openfails", "writefails"}

\* what SaveCaches returns: the errors of the gob file are logged only
SaveCachesFailed(dir, gobHow, jsonHow) == dir = "blocked" \/ jsonHow # "ok"

\* Tiingo.SaveCaches()
SaveCaches(gobHow, jsonHow) ==
    /\ ~crashed
    /\ IF disk.dir = "blocked"
       THEN /\ lastSave' = [called |-> TRUE, gobTried |-> FALSE, jsonTried |-> FALSE,
                            gobFailed |-> FALSE, jsonFailed |-> FALSE,
                            failed |-> SaveCachesFailed(disk.dir, gobHow, jsonHow)]
            /\ UNCHANGED disk
       ELSE LET packed == Pack([Tickers |-> Tickers, Rows |-> Rows])
            IN  /\ disk' = [dir |-> "present",
                            gob |-> FileWritten(disk.gob, gobHow, packed),
                            json |-> FileWritten(disk.json, jsonHow, packed)]
                /\ lastSave' = [called |-> TRUE, gobTried |-> TRUE, jsonTried |-> TRUE,
                                gobFailed |-> gobHow # "ok", jsonFailed |-> jsonHow # "ok",
                                failed |-> SaveCachesFailed(disk.dir, gobHow, jsonHow)]
    /\ lastLoad' = Forgotten(lastLoad)
    /\ UNCHANGED <<notCache, treeVars, storeVars, dlVars>>

\* between calls the files are damaged, replaced or removed from outside
Damage(which, st) ==
    /\ ~crashed
    /\ disk.dir = "present"
    /\ disk[which].state # "missing"
    /\ st \in {"missing", "unreadable", "truncated"} \cup (IF which = "json" THEN {"mistyped"} ELSE {})
    /\ disk' = [disk EXCEPT ![which] =
                   [state |-> st,
                    data |-> IF st = "mistyped" THEN @.data ELSE NewHistory]]
    /\ lastLoad' = Forgotten(lastLoad)
    /\ lastSave' = NoSave
    /\ UNCHANGED <<notCache, treeVars, storeVars, dlVars>>

\* a ticker's bars are merged into the store between the cache calls
CacheIngest(periods, ticker) ==
    /\ ~crashed
    /\ ncalls < MaxCalls
    /\ LET h == AddData([Tickers |-> Tickers, Rows |-> Rows], periods, ticker)
       IN  /\ Rows' = h.Rows
           /\ Tickers' = h.Tickers
    /\ ncalls' = ncalls + 1
    /\ lastLoad' = Forgotten(lastLoad)
    /\ lastSave' = NoSave
    /\ UNCHANGED <<disk, notCache, treeVars, call, query, dlVars>>

\* the server is started again: NewTiingo makes a new, empty DailyCache
Restart ==
    /\ Rows' = NewHistory.Rows
    /\ Tickers' = NewHistory.Tickers
    /\ crashed' = FALSE
    /\ lastLoad' = Forgotten(lastLoad)
    /\ lastSave' = NoSave
    /\ UNCHANGED <<disk, notCache, treeVars, call, query, ncalls, pc, kind, snapshot, cursor,
                   task, groupErr, saveErr, ret, saves, mapWriting, spare, hd, nhd,
                   atCall, failOrder>>

\* the folder ./data is absent at first, or cannot be created at all
InitCache ==
    /\ TreeStart /\ StoreStart /\ DownloadStart
    /\ IngestStart /\ WatchStart /\ IndicatorStart /\ BotStart /\ AddStart /\ PortfolioStart
    /\ disk \in {[dir |-> d, gob |-> NoFile, json |-> NoFile] : d \in {"absent", "blocked"}}
    /\ lastLoad = NoLoad
    /\ lastSave = NoSave

NextCache ==
    \/ \E j \in BOOLEAN : LoadCaches(j)
    \/ \E g \in WriteOutcomes, j \in WriteOutcomes : SaveCaches(g, j)
    \/ \E w \in {"gob", "json"}, st \in FileStates : Damage(w, st)
    \/ \E ps \in FetchedPeriods : CacheIngest(ps, CacheSym)
    \/ Restart

SpecCache == InitCache /\ [][NextCache]_vars

-----------------------------------------------------------------------------
(***************************************************************************)
(* Indicators (pkg/indicators).                                            *)
(*                                                                         *)
(* A float64 is modelled as a fraction in lowest terms [num, den], den >   *)
(* 0: sums, products and quotients are exact.  An indicator name, the      *)
(* string fmt.Sprintf gives for the kind and the two parameters, is the    *)
(* tuple of the three.  An indicator is a record with the fields of EMA    *)
(* and of MACD; the fields of the other kind are 0.                        *)
(*                                                                         *)
(* Apply is handed three closures.  CalculateIndicators hands the ones     *)
(* that read and write the bars of one ticker from row startIndex on; MACD *)
(* hands its two EMAs setters and getters of a scratch slice.  env tells   *)
(* which closures an Apply was given; st is what they read and write: the  *)
(* rows of the store and the scratch slice.                                *)
(***************************************************************************)
Abs(x) == IF x < 0 THEN -x ELSE x

RECURSIVE GCD(_, _)
GCD(a, b) == IF b = 0 THEN a ELSE GCD(b, a % b)

Frac(n, d) ==
    LET g == GCD(Abs(n), Abs(d))
        s == IF d < 0 THEN -1 ELSE 1
    IN  [num |-> (s * n) \div g, den |-> (s * d) \div g]

Float(x) == Frac(x, 1)
FAdd(x, y) == Frac(x.num * y.den + y.num * x.den, x.den * y.den)
FSub(x, y) == Frac(x.num * y.den - y.num * x.den, x.den * y.den)
FMul(x, y) == Frac(x.num * y.num, x.den * y.den)
FDiv(x, y) == Frac(x.num * y.den, x.den * y.num)

NewEMA(s, n) ==
    [kind |-> "EMA", Smoothing |-> s, PeriodLength |-> n, ShortPeriod |-> 0,
     LongPeriod |-> 0]

NewMACD(short, long) ==
    [kind |-> "MACD", Smoothing |-> 0, PeriodLength |-> 0, ShortPeriod |-> short,
     LongPeriod |-> long]

\* EMA.Name, MACD.Name
Name(ind) ==
    IF ind.kind = "EMA" THEN <<"EMA", ind.Smoothing, ind.PeriodLength>>
    ELSE <<"MACD", ind.ShortPeriod, ind.LongPeriod>>

\* the closure getTarget of CalculateIndicators
getTarget(rows, startIndex, ticker, index) ==
    LET data == rows[index + startIndex + 1].Data
    IN  IF ticker \notin DOMAIN data THEN Float(-1)
        ELSE Float(data[ticker].AdjClose)

\* the closure getIndicator of CalculateIndicators; a Go map gives 0 for a
\* key it does not hold
getIndicator(rows, startIndex, ticker, index, indicator) ==
    LET data == rows[index + startIndex + 1].Data
    IN  IF ticker \notin DOMAIN data THEN Float(-1)
        ELSE IF indicator \in DOMAIN data[ticker].Indicators
             THEN data[ticker].Indicators[indicator]
             ELSE Float(0)

\* a setValue that stores a new bar where the row holds none for the ticker
setValue_storesNewBar(rows, startIndex, ticker, name, index, value) ==
    IF ticker \notin DOMAIN rows[index + startIndex + 1].Data
    THEN [rows EXCEPT ![index + startIndex + 1].Data =
                          MapStore(@, ticker, [AdjClose |-> 0,
                                               Indicators |-> MapStore(EmptyMap, name, value)])]
    ELSE [rows EXCEPT ![index + startIndex + 1].Data[ticker].Indicators =
                          MapStore(@, name, value)]

\* the closure setValue of CalculateIndicators, made for the indicator name
setValue(rows, startIndex, ticker, name, index, value) ==
    IF ticker \notin DOMAIN rows[index + startIndex + 1].Data THEN rows
    ELSE [rows EXCEPT ![index + startIndex + 1].Data[ticker].Indicators =
                          MapStore(@, name, value)]

\* the closures CalculateIndicators makes for a ticker and an indicator name
StoreEnv(startIndex, ticker, name) ==
    [scratch |-> FALSE, startIndex |-> startIndex, ticker |-> ticker, name |-> name]

\* the closures MACD.Apply makes for one of its EMAs: getTarget is the one
\* MACD.Apply was given
ScratchEnv(env) == [env EXCEPT !.scratch = TRUE]

\* make([]float64, len(rows))
MakeSlice(len) == [i \in 1..len |-> Float(0)]

GetTarget(env, st, index) == getTarget(st.rows, env.startIndex, env.ticker, index)

GetIndicator(env, st, index, indicator) ==
    IF env.scratch THEN st.buf[index + 1]
    ELSE getIndicator(st.rows, env.startIndex, env.ticker, index, indicator)

SetValue(env, st, index, value) ==
    IF env.scratch THEN [st EXCEPT !.buf[index + 1] = value]
    ELSE [st EXCEPT !.rows = setValue(@, env.startIndex, env.ticker, env.name, index, value)]

\* sf := float64(ema.Smoothing) / float64(ema.PeriodLength+1)
SmoothingFactor(ema) == FDiv(Float(ema.Smoothing), Float(ema.PeriodLength + 1))

\* an EMA whose warm-up divides by the period length
RECURSIVE EMALoop_dividesByPeriod(_, _, _, _, _, _)
EMALoop_dividesByPeriod(ema, env, st, len, i, sum) ==
    IF i >= len THEN st
    ELSE IF i < ema.PeriodLength
    THEN LET s2 == FAdd(sum, GetTarget(env, st, i))
         IN  EMALoop_dividesByPeriod(ema, env,
                 SetValue(env, st, i, FDiv(s2, Float(ema.PeriodLength))), len, i + 1, s2)
    ELSE LET sf == SmoothingFactor(ema)
             v  == FAdd(FMul(GetTarget(env, st, i), sf),
                        FMul(GetIndicator(env, st, i - 1, Name(ema)), FSub(Float(1), sf)))
         IN  EMALoop_dividesByPeriod(ema, env, SetValue(env, st, i, v), len, i + 1, sum)

\* the loop of EMA.Apply from index i on, sum the running sum
RECURSIVE EMALoop(_, _, _, _, _, _)
EMALoop(ema, env, st, len, i, sum) ==
    IF i >= len THEN st
    ELSE IF i < ema.PeriodLength
    THEN LET s2 == FAdd(sum, GetTarget(env, st, i))
         IN  EMALoop(ema, env, SetValue(env, st, i, FDiv(s2, Float(i + 1))), len,
                     i + 1, s2)
    ELSE LET sf == SmoothingFactor(ema)
             v  == FAdd(FMul(GetTarget(env, st, i), sf),
                        FMul(GetIndicator(env, st, i - 1, Name(ema)), FSub(Float(1), sf)))
         IN  EMALoop(ema, env, SetValue(env, st, i, v), len, i + 1, sum)

\* an EMA.Apply whose running sum starts from the value stored at index 0
EMAApply_sumFromStored(ema, env, st, len) ==
    EMALoop(ema, env, st, len, 0, GetIndicator(env, st, 0, Name(ema)))

\* EMA.Apply over a window of len rows
EMAApply(ema, env, st, len) == EMALoop(ema, env, st, len, 0, Float(0))

\* a last loop of MACD.Apply that sets the values from ShortPeriod on
RECURSIVE MACDLoop_fromShortPeriod(_, _, _, _, _, _, _)
MACDLoop_fromShortPeriod(macd, env, st, len, i, shortEMAs, longEMAs) ==
    IF i >= len THEN st
    ELSE IF i < macd.ShortPeriod
    THEN MACDLoop_fromShortPeriod(macd, env, st, len, i + 1, shortEMAs, longEMAs)
    ELSE MACDLoop_fromShortPeriod(macd, env,
                  SetValue(env, st, i, FSub(shortEMAs[i + 1], longEMAs[i + 1])),
                  len, i + 1, shortEMAs, longEMAs)

\* the last loop of MACD.Apply from index i on
RECURSIVE MACDLoop(_, _, _, _, _, _, _)
MACDLoop(macd, env, st, len, i, shortEMAs, longEMAs) ==
    IF i >= len THEN st
    ELSE IF i < macd.LongPeriod
    THEN MACDLoop(macd, env, st, len, i + 1, shortEMAs, longEMAs)
    ELSE MACDLoop(macd, env,
                  SetValue(env, st, i, FSub(shortEMAs[i + 1], longEMAs[i + 1])),
                  len, i + 1, shortEMAs, longEMAs)

\* MACD.Apply panics before anything else when the periods are not in order
Panics(ind) == ind.kind = "MACD" /\ ind.ShortPeriod >= ind.LongPeriod

\* MACD.Apply when it does not panic
MACDApply(macd, env, st, len) ==
    LET shortEMAs == EMAApply(NewEMA(2, macd.ShortPeriod), ScratchEnv(env),
                              [st EXCEPT !.buf = MakeSlice(len)], len).buf
        longEMAs  == EMAApply(NewEMA(2, macd.LongPeriod), ScratchEnv(env),
                              [st EXCEPT !.buf = MakeSlice(len)], len).buf
    IN  MACDLoop(macd, env, st, len, 0, shortEMAs, longEMAs)

\* indicator.Apply(history.Rows[startIndex:endIndex+1], getTarget, setValue,
\* getIndicator) for a ticker: the rows of the store afterwards
Apply(ind, rows, startIndex, endIndex, ticker) ==
    LET env == StoreEnv(startIndex, ticker, Name(ind))
        st  == [rows |-> rows, buf |-> <<>>]
        len == endIndex + 1 - startIndex
    IN  IF ind.kind = "EMA" THEN EMAApply(ind, env, st, len).rows
        ELSE MACDApply(ind, env, st, len).rows

\* setValue stores into a bar: the window holds a bar of the ticker at an
\* index the indicator sets
Writes(ind, rows, startIndex, endIndex, ticker) ==
    \E i \in startIndex..endIndex :
        /\ ticker \in DOMAIN rows[i + 1].Data
        /\ ind.kind = "MACD" => i - startIndex >= ind.LongPeriod

(***************************************************************************)
(* Tiingo.AddIndicator and Tiingo.CalculateIndicators on a store that      *)
(* AddData fills and LoadCaches reloads between the calls.                 *)
(*                                                                         *)
(* The range loop of CalculateIndicators visits the entries of h.Tickers   *)
(* in any order.  In pkg/indicators it applies the indicators of a ticker  *)
(* before it goes on to the next entry.  In package main it starts a       *)
(* goroutine for the ticker and goes on; the goroutines call wg.Done()     *)
(* when they return and the caller waits in wg.Wait().  A step of a task   *)
(* is one Apply.  A panic of Apply is not recovered anywhere: it ends the  *)
(* process.  Tiingo.CalculateIndicators ends with SaveCaches.              *)
(*                                                                         *)
(* SpecInd runs the calls of both builds on short histories, with          *)
(* indicator lists that hold ill-formed MACDs and with reloads of the      *)
(* cache; SpecApply runs one call of pkg/indicators with one well-formed   *)
(* indicator on longer histories.                                          *)
(***************************************************************************)
Engines == {"pkg", "main"}

\* the dates of the bars of one provider response: the first days up to a,
\* the day a alone, or the day a and the next but one
IndDateSets(maxDate) ==
    {1..a : a \in 1..maxDate} \cup {{a} : a \in 1..maxDate}
        \cup {{a, a + 2} : a \in 1..(maxDate - 2)}

\* the adjusted close of a ticker on a date
IndPrice(ticker, date) ==
    IF ticker = 1 THEN 10 * date ELSE 10 * (MaxIndDate - date) + 5

RECURSIVE SortedBars(_, _)
SortedBars(ticker, dates) ==
    IF dates = {} THEN <<>>
    ELSE LET d == CHOOSE x \in dates : \A y \in dates : x <= y
         IN  <<[Date |-> d, AdjClose |-> IndPrice(ticker, d)]>>
                 \o SortedBars(ticker, dates \ {d})

IndBatches(ticker, maxDate) == {SortedBars(ticker, ds) : ds \in IndDateSets(maxDate)}

EMAs == {NewEMA(s, n) : s \in 1..MaxSmoothing, n \in 1..MaxPeriod}
MACDs == {NewMACD(short, long) : short \in 1..MaxMACD, long \in 1..MaxMACD}

Running == {t \in StoreSyms : itask[t].state = "running"}

\* wg.Add(len(h.Tickers))
WaitGroupAdd_oneForTheCall(tickers) == 1

WaitGroupAdd(tickers) == Cardinality(DOMAIN tickers)

\* a ticker's bars are merged into the store between the calls
IndIngest(periods, ticker) ==
    /\ ipc = "idle" /\ ~crashed
    /\ ncalls < MaxIndCalls
    /\ LET h == AddData([Tickers |-> Tickers, Rows |-> Rows], periods, ticker)
       IN  /\ Rows' = h.Rows
           /\ Tickers' = h.Tickers
    /\ ncalls' = ncalls + 1
    /\ UNCHANGED <<indVars, ingestVars, watchVars, botVars, addVars, callVars, portfolioVars, cacheVars, treeVars, call, query,
                   dlVars>>

\* Tiingo.LoadCaches(useJSON) between the calls
IndLoad(useJSON) ==
    /\ ipc = "idle" /\ ~crashed
    /\ disk.dir = "present"
    /\ LET h == [Tickers |-> Tickers, Rows |-> Rows]
           r == IF useJSON THEN LoadJSON(h, disk.json) ELSE LoadGOB(h, disk.gob)
       IN  /\ Rows' = r.h.Rows
           /\ Tickers' = r.h.Tickers
    /\ UNCHANGED <<indVars, ingestVars, watchVars, botVars, addVars, callVars, portfolioVars, cacheVars, treeVars, call, query,
                   ncalls, dlVars>>

\* Tiingo.AddIndicator(indicator)
AddIndicator(indicator) ==
    /\ ipc = "idle" /\ ~crashed
    /\ Len(Indicators) < MaxInd
    /\ Indicators' = Append(Indicators, indicator)
    /\ UNCHANGED <<engine, ipc, todo, itask, wg, iret, iwrote, npass, ingestVars,
                   watchVars, botVars, addVars, callVars, portfolioVars, cacheVars, treeVars, storeVars, dlVars>>

\* Tiingo.CalculateIndicators is called
IndStart ==
    /\ ipc = "idle" /\ ~crashed
    /\ npass < MaxPasses
    /\ ipc' = "loop"
    /\ todo' = DOMAIN Tickers
    /\ itask' = [t \in StoreSyms |-> NoIndTask]
    /\ wg' = IF engine = "main" THEN WaitGroupAdd(Tickers) ELSE 0
    /\ iret' = "none"
    /\ iwrote' = FALSE
    /\ npass' = npass + 1
    /\ UNCHANGED <<Indicators, engine, ingestVars, watchVars, botVars, addVars, callVars, portfolioVars, cacheVars, treeVars,
                   storeVars, dlVars>>

\* one iteration of the range loop, for the entry of ticker: the window is
\* resolved; the ticker is skipped, or its indicators are started
IndLoop(ticker) ==
    /\ ipc = "loop" /\ ~crashed
    /\ ticker \in todo
    /\ engine = "pkg" => Running = {}
    /\ LET startIndex == GetClosestRowBefore(Rows, Tickers[ticker].Start).index
           endIndex   == GetClosestRowBefore(Rows, Tickers[ticker].End).index
       IN  IF startIndex = -1 \/ endIndex = -1
           THEN /\ itask' = [itask EXCEPT ![ticker] =
                                 [NoIndTask EXCEPT !.state = "skipped",
                                     !.dones = IF engine = "main" THEN 1 ELSE 0]]
                /\ wg' = IF engine = "main" THEN wg - 1 ELSE wg
           ELSE /\ itask' = [itask EXCEPT ![ticker] =
                                 [NoIndTask EXCEPT !.state = "running",
                                     !.startIndex = startIndex, !.endIndex = endIndex]]
                /\ wg' = wg
    /\ todo' = todo \ {ticker}
    /\ UNCHANGED <<Indicators, engine, ipc, iret, iwrote, npass, ingestVars, watchVars, botVars, addVars, callVars, portfolioVars,
                   cacheVars, treeVars, storeVars, dlVars>>

\* a loop over the indicators that takes them from the end of the list
NextIndicator_lastFirst(indicators, applied) == Len(indicators) - applied

\* for _, indicator := range indicators: the index (from 1) of the element
\* the loop body runs for after applied iterations
NextIndicator(indicators, applied) == applied + 1

\* the next indicator of the list is applied to the window of ticker; log
\* is a ghost, the indexes of the indicators applied so far
IndApply(ticker) ==
    /\ ipc = "loop" /\ ~crashed
    /\ itask[ticker].state = "running"
    /\ itask[ticker].applied < Len(Indicators)
    /\ LET tk  == itask[ticker]
           k   == NextIndicator(Indicators, tk.applied)
           ind == Indicators[k]
       IN  IF Panics(ind)
           THEN /\ crashed' = TRUE
                /\ UNCHANGED <<Rows, itask, iwrote>>
           ELSE /\ Rows' = Apply(ind, Rows, tk.startIndex, tk.endIndex, ticker)
                /\ itask' = [itask EXCEPT ![ticker].applied = @ + 1,
                                          ![ticker].log = Append(@, k)]
                /\ iwrote' = (iwrote \/ Writes(ind, Rows, tk.startIndex, tk.endIndex, ticker))
                /\ UNCHANGED crashed
    /\ UNCHANGED <<Indicators, engine, ipc, todo, wg, iret, npass, ingestVars,
                   watchVars, botVars, addVars, callVars, portfolioVars, cacheVars, treeVars, Tickers, call, query, ncalls, pc,
                   kind, snapshot, cursor, task, groupErr, saveErr, ret, saves,
                   mapWriting, spare, hd, nhd, atCall, failOrder>>

\* the indicators of ticker are through: the loop body ends, or the
\* goroutine returns and its deferred wg.Done() runs
IndDone(ticker) ==
    /\ ipc = "loop" /\ ~crashed
    /\ itask[ticker].state = "running"
    /\ itask[ticker].applied = Len(Indicators)
    /\ itask' = [itask EXCEPT ![ticker].state = "finished",
                              ![ticker].dones = IF engine = "main" THEN @ + 1 ELSE @]
    /\ wg' = IF engine = "main" THEN wg - 1 ELSE wg
    /\ UNCHANGED <<Indicators, engine, ipc, todo, iret, iwrote, npass, ingestVars,
                   watchVars, botVars, addVars, callVars, portfolioVars, cacheVars, treeVars, storeVars, dlVars>>

\* the range loop is over; in package main wg.Wait() returns when the
\* counter is 0
IndReturn ==
    /\ ipc = "loop" /\ ~crashed
    /\ todo = {}
    /\ IF engine = "main" THEN wg = 0 ELSE Running = {}
    /\ ipc' = "save"
    /\ UNCHANGED <<Indicators, engine, todo, itask, wg, iret, iwrote, npass, ingestVars,
                   watchVars, botVars, addVars, callVars, portfolioVars, cacheVars, treeVars, storeVars, dlVars>>

\* return t.SaveCaches()
IndSave(gobHow, jsonHow) ==
    /\ ipc = "save" /\ ~crashed
    /\ disk' = IF disk.dir = "blocked" THEN disk
               ELSE LET packed == Pack([Tickers |-> Tickers, Rows |-> Rows])
                    IN  [dir |-> "present",
                         gob |-> FileWritten(disk.gob, gobHow, packed),
                         json |-> FileWritten(disk.json, jsonHow, packed)]
    /\ iret' = IF SaveCachesFailed(disk.dir, gobHow, jsonHow) THEN "error" ELSE "nil"
    /\ ipc' = "idle"
    /\ itask' = [t \in StoreSyms |-> NoIndTask]
    /\ iwrote' = FALSE
    /\ UNCHANGED <<Indicators, engine, todo, wg, npass, lastLoad, lastSave,
                   ingestVars, watchVars, botVars, addVars, callVars, portfolioVars, treeVars, storeVars, dlVars>>

InitInd ==
    /\ TreeStart /\ StoreStart /\ DownloadStart
    /\ IngestStart /\ WatchStart /\ CacheStart /\ BotStart /\ AddStart /\ PortfolioStart
    /\ Indicators = <<>>
    /\ engine \in Engines
    /\ ipc = "idle"
    /\ todo = {}
    /\ itask = [t \in StoreSyms |-> NoIndTask]
    /\ wg = 0
    /\ iret = "none"
    /\ iwrote = FALSE
    /\ npass = 0

IndSteps ==
    \/ IndStart
    \/ \E t \in StoreSyms : IndLoop(t)
    \/ \E t \in StoreSyms : IndApply(t)
    \/ \E t \in StoreSyms : IndDone(t)
    \/ IndReturn
    \/ \E how \in {"ok", "openfails"} : IndSave(how, how)

NextInd ==
    \/ \E t \in StoreSyms : \E ps \in IndBatches(t, MaxRunDate) : IndIngest(ps, t)
    \/ \E j \in BOOLEAN : IndLoad(j)
    \/ \E ind \in {NewEMA(2, 2)} \cup MACDs : AddIndicator(ind)
    \/ IndSteps

SpecInd == InitInd /\ [][NextInd]_vars

\* the caller and the goroutines of a call keep being scheduled
IndRun ==
    \/ \E t \in StoreSyms : IndLoop(t)
    \/ \E t \in StoreSyms : IndApply(t)
    \/ \E t \in StoreSyms : IndDone(t)
    \/ IndReturn

\* SpecInd with one-day responses, one indicator that is well-formed or
\* ill-formed, reloads of the JSON cache and saves that succeed
NextIndLive ==
    \/ \E t \in StoreSyms : \E d \in 1..MaxRunDate :
          IndIngest(SortedBars(t, {d}), t)
    \/ IndLoad(TRUE)
    \/ \E ind \in {NewEMA(2, 2), NewMACD(2, 1)} :
          Indicators = <<>> /\ AddIndicator(ind)
    \/ IndStart
    \/ \E t \in StoreSyms : IndLoop(t)
    \/ \E t \in StoreSyms : IndApply(t)
    \/ \E t \in StoreSyms : IndDone(t)
    \/ IndReturn
    \/ IndSave("ok", "ok")

SpecIndLive == InitInd /\ [][NextIndLive]_vars /\ WF_vars(IndRun)

InitApply == TreeStart /\ StoreStart /\ DownloadStart /\ AuxStart

NextApply ==
    \/ \E t \in StoreSyms : \E ps \in IndBatches(t, MaxIndDate) :
          npass = 0 /\ IndIngest(ps, t)
    \/ \E ind \in EMAs \cup {m \in MACDs : ~Panics(m)} :
          Indicators = <<>> /\ AddIndicator(ind)
    \/ npass = 0 /\ IndStart
    \/ \E t \in StoreSyms : IndLoop(t)
    \/ \E t \in StoreSyms : IndApply(t)
    \/ \E t \in StoreSyms : IndDone(t)
    \/ IndReturn
    \/ \E how \in {"ok", "openfails"} : IndSave(how, how)

SpecApply == InitApply /\ [][NextApply]_vars

-----------------------------------------------------------------------------
(***************************************************************************)
(* SpecQuery: GetClosestRowBefore applied to the rows that the ingest of   *)
(* two tickers' histories leaves (every strictly ascending sequence of row *)
(* dates occurs), for query dates before, at, between and after the row    *)
(* dates.                                                                  *)
(***************************************************************************)
InitQuery ==
    /\ \E ps1 \in SortedPeriodsUpTo(MaxDate), ps2 \in SortedPeriodsUpTo(MaxDate) :
          LET h == AddData(AddData(NewHistory, ps1, 1), ps2, 2)
          IN  /\ Rows = h.Rows
              /\ Tickers = h.Tickers
              /\ call = [periods |-> ps2, ticker |-> 2]
    /\ query = NoQuery
    /\ ncalls = 2
    /\ TreeStart
    /\ DownloadStart
    /\ AuxStart

QueryCall(date) ==
    /\ LET r == GetClosestRowBefore(Rows, date)
       IN  query' = [date |-> date, index |-> r.index, row |-> r.row]
    /\ UNCHANGED <<auxVars, Rows, Tickers, call, ncalls, treeVars, dlVars>>

NextQuery == \E d \in 0..(MaxDate + 1) : QueryCall(d)

SpecQuery == InitQuery /\ [][NextQuery]_vars

-----------------------------------------------------------------------------
(***************************************************************************)
(* BotWorker (internal/bot/bot.go): the quote-refresh goroutine and the    *)
(* account-valuation goroutine NewBotWorker starts, joined by the          *)
(* unbuffered channel accountValuer.  The refresh loop runs its body once  *)
(* at once and then on every tick of liveDownloader; its test reads the    *)
(* clock twice, and the clock can move between the readings.  The          *)
(* calculateAccountValue goroutines a valuation pass starts are counted.   *)
(* The ticker "" of a zero LastPriceResponse is 0.                         *)
(***************************************************************************)
Hours == 0..23
Quotes == 1..MaxQuote

\* what http.DefaultClient.Do gives FetchCurrPrices: no response (status
\* "none", a network failure), a non-OK status whose body holds no list, or
\* OK with a list of quotes for some of the tickers asked for
QuoteResponses(tickers) ==
    {[status |-> st, quotes |-> EmptyMap] : st \in {"none", "notfound", "other"}}
        \cup {[status |-> "ok", quotes |-> q] :
                 q \in UNION {[S -> Quotes] : S \in SUBSET Range(tickers)}}

\* result := make([]LastPriceResponse, len(tickers)); Decode(&result);
\* for _, pair := range result { prices[pair.Ticker] = pair.TngoLast }
PricesOf(tickers, resp) ==
    IF resp.status = "ok" THEN resp.quotes
    ELSE IF Len(tickers) = 0 THEN EmptyMap
    ELSE MapStore(EmptyMap, 0, 0)

\* Tiingo.FetchCurrPrices: what the caller gets.  With no response
\* response.Body dereferences nil and the goroutine panics.
FetchCurrPrices(tree, resp) ==
    IF resp.status = "none" THEN [returned |-> "panic", prices |-> EmptyMap]
    ELSE [returned |-> "map", prices |-> PricesOf(AsSlice(tree), resp)]

\* time passes
ClockAdvance ==
    /\ lpc # "none"
    /\ ~crashed
    /\ elapsed < MaxElapsed
    /\ elapsed' = elapsed + 1
    /\ now' = (now + 1) % 24
    /\ UNCHANGED <<lpc, vpc, latestPrices, live, nticks, fetched, valued>>
    /\ UNCHANGED <<ingestVars, watchVars, cacheVars, indVars, addVars, callVars, portfolioVars, treeVars, storeVars, dlVars>>

\* <-liveDownloader.C
LiveTick ==
    /\ lpc = "wait"
    /\ ~crashed
    /\ nticks < MaxTicks
    /\ nticks' = nticks + 1
    /\ live' = [NoLive EXCEPT !.byTick = TRUE]
    /\ lpc' = "read1"
    /\ UNCHANGED <<now, elapsed, vpc, latestPrices, fetched, valued>>
    /\ UNCHANGED <<ingestVars, watchVars, cacheVars, indVars, addVars, callVars, portfolioVars, treeVars, storeVars, dlVars>>

\* time.Now().In(time.UTC).Hour() < 14
LiveRead1 ==
    /\ lpc = "read1"
    /\ ~crashed
    /\ live' = [live EXCEPT !.h1 = now]
    /\ lpc' = IF now < 14 THEN "wait" ELSE "read2"
    /\ UNCHANGED <<now, elapsed, vpc, latestPrices, nticks, fetched, valued>>
    /\ UNCHANGED <<ingestVars, watchVars, cacheVars, indVars, addVars, callVars, portfolioVars, treeVars, storeVars, dlVars>>

\* || time.Now().In(time.UTC).Hour() > 21
LiveRead2 ==
    /\ lpc = "read2"
    /\ ~crashed
    /\ live' = [live EXCEPT !.h2 = now]
    /\ lpc' = IF now > 21 THEN "wait" ELSE "refresh"
    /\ UNCHANGED <<now, elapsed, vpc, latestPrices, nticks, fetched, valued>>
    /\ UNCHANGED <<ingestVars, watchVars, cacheVars, indVars, addVars, callVars, portfolioVars, treeVars, storeVars, dlVars>>

\* bw.updateCurrPrices(): bw.latestPrices = bw.tiingo.FetchCurrPrices()
LiveRefresh(resp) ==
    /\ lpc = "refresh"
    /\ ~crashed
    /\ LET f == FetchCurrPrices(root, resp)
       IN  /\ fetched' = [called |-> TRUE, status |-> resp.status, returned |-> f.returned,
                          before |-> AsSlice(root), after |-> AsSlice(root)]
           /\ IF f.returned = "panic"
              THEN /\ crashed' = TRUE
                   /\ live' = [live EXCEPT !.requests = @ + 1]
                   /\ UNCHANGED <<latestPrices, lpc>>
              ELSE /\ latestPrices' = f.prices
                   /\ live' = [live EXCEPT !.requests = @ + 1, !.assigned = TRUE]
                   /\ lpc' = "send"
                   /\ UNCHANGED crashed
    /\ UNCHANGED <<now, elapsed, vpc, nticks, valued>>
    /\ UNCHANGED <<ingestVars, watchVars, cacheVars, indVars, addVars, callVars, portfolioVars, treeVars, storeVars>>
    /\ UNCHANGED <<pc, kind, snapshot, cursor, task, groupErr, saveErr, ret, saves,
                   mapWriting, spare, hd, nhd, atCall, failOrder>>

\* accountValuer <- true, received by <-accountValuer of the valuation loop
LiveSend ==
    /\ lpc = "send"
    /\ vpc = "recv"
    /\ ~crashed
    /\ lpc' = "wait"
    /\ vpc' = "pass"
    /\ live' = [live EXCEPT !.handedOff = TRUE]
    /\ UNCHANGED <<now, elapsed, latestPrices, nticks, fetched, valued>>
    /\ UNCHANGED <<ingestVars, watchVars, cacheVars, indVars, addVars, callVars, portfolioVars, treeVars, storeVars, dlVars>>

\* a valuation loop that ends when GetAll fails
ValuePass_returnsOnError(docs) ==
    /\ vpc = "pass"
    /\ ~crashed
    /\ valued' = [passes |-> valued.passes + 1,
                  started |-> valued.started + (IF docs = -1 THEN 0 ELSE docs)]
    /\ vpc' = IF docs = -1 THEN "none" ELSE "recv"
    /\ UNCHANGED <<now, elapsed, lpc, latestPrices, live, nticks, fetched>>
    /\ UNCHANGED <<ingestVars, watchVars, cacheVars, indVars, addVars, callVars, portfolioVars, treeVars, storeVars, dlVars>>

\* the body of the valuation loop: GetAll fails (docs = -1) or gives docs
\* documents, for each of which go bw.calculateAccountValue(doc)
ValuePass(docs) ==
    /\ vpc = "pass"
    /\ ~crashed
    /\ valued' = [passes |-> valued.passes + 1,
                  started |-> valued.started + (IF docs = -1 THEN 0 ELSE docs)]
    /\ vpc' = "recv"
    /\ UNCHANGED <<now, elapsed, lpc, latestPrices, live, nticks, fetched>>
    /\ UNCHANGED <<ingestVars, watchVars, cacheVars, indVars, addVars, callVars, portfolioVars, treeVars, storeVars, dlVars>>

\* NewBotWorker on a new Tiingo: both loops are about to run their body
InitBot ==
    /\ TreeStart /\ StoreStart /\ DownloadStart
    /\ IngestStart /\ WatchStart /\ CacheStart /\ IndicatorStart /\ AddStart /\ PortfolioStart
    /\ now \in Hours
    /\ elapsed = 0
    /\ lpc = "read1"
    /\ vpc = "pass"
    /\ latestPrices = EmptyMap
    /\ live = NoLive
    /\ nticks = 0
    /\ fetched = NoFetch
    /\ valued = [passes |-> 0, started |-> 0]

NextBot ==
    \/ ClockAdvance
    \/ LiveTick
    \/ LiveRead1
    \/ LiveRead2
    \/ \E resp \in QuoteResponses(AsSlice(root)) : LiveRefresh(resp)
    \/ LiveSend
    \/ \E docs \in -1..MaxDocs : ValuePass(docs)
    \/ \E raw \in DLSyms : ~crashed /\ ~Contains(root, raw) /\ AddTickers(raw)

SpecBot == InitBot /\ [][NextBot]_vars

\* SpecBot in which the two goroutines keep being scheduled: a send and a
\* receive that are both ready take place, and GetAll returns
SpecBotLive ==
    /\ InitBot
    /\ [][NextBot]_vars
    /\ WF_vars(LiveSend)
    /\ WF_vars(\E docs \in -1..MaxDocs : ValuePass(docs))

-----------------------------------------------------------------------------
(***************************************************************************)
(* SpecTriggers: two goroutines of the service call into the downloader at *)
(* the same time.  Each is a request handler or a calculateAccountValue    *)
(* goroutine running BotWorker.addTickers, or the daily loop running       *)
(* DownloadAllTickers.  Go runs one statement of one goroutine after       *)
(* another in any order: the variables pc .. failOrder hold the call of    *)
(* the goroutine that runs, other holds the call of the goroutine that     *)
(* does not, and SwitchCall lets the other goroutine go on.  The           *)
(* watchlist, the store, latestPrices and the run-time state are shared.   *)
(* The provider answers every quote request, with the same price for every *)
(* ticker, and has at most one bar for a ticker.                           *)
(***************************************************************************)
\* the fetch responses for a ticker: no bar, or its one bar, whose date is
\* the ticker's number
TriggerResponses(ticker) ==
    {r \in Responses :
        Len(r.periods) <= 1 /\ \A k \in 1..Len(r.periods) : r.periods[k].Date = ticker}

\* the quote responses: OK with a quote for every ticker asked for
TriggerQuotes(tickers) ==
    {r \in QuoteResponses(tickers) :
        /\ r.status = "ok"
        /\ DOMAIN r.quotes = Range(tickers)
        /\ \A t \in DOMAIN r.quotes : r.quotes[t] = MaxQuote}

\* BotWorker.addTickers: bw.tiingo.AddTickers(tickers...)
addTickers(raw) ==
    /\ pc = "idle"
    /\ ~crashed
    /\ root' = InsertAll(root, <<ToUpper(raw)>>)
    /\ added' = [called |-> TRUE, raw |-> raw, before |-> AsSlice(root)]
    /\ pc' = "prices"
    /\ UNCHANGED <<ingestVars, watchVars, cacheVars, indVars, botVars, callVars, portfolioVars>>
    /\ UNCHANGED <<ghostVars, Rows, Tickers, kind, snapshot, cursor, task, groupErr,
                   saveErr, ret, saves, crashed, mapWriting, spare, hd, nhd, atCall,
                   failOrder>>

\* BotWorker.addTickers: bw.updateCurrPrices()
updateCurrPrices(resp) ==
    /\ pc = "prices"
    /\ ~crashed
    /\ LET f == FetchCurrPrices(root, resp)
       IN  /\ fetched' = [called |-> TRUE, status |-> resp.status, returned |-> f.returned,
                          before |-> AsSlice(root), after |-> AsSlice(root)]
           /\ IF f.returned = "panic"
              THEN /\ crashed' = TRUE
                   /\ UNCHANGED <<latestPrices, pc>>
              ELSE /\ latestPrices' = f.prices
                   /\ pc' = "missing"
                   /\ UNCHANGED crashed
    /\ UNCHANGED <<now, elapsed, lpc, vpc, live, nticks, valued>>
    /\ UNCHANGED <<ingestVars, watchVars, cacheVars, indVars, addVars, callVars, portfolioVars, treeVars,
                   storeVars>>
    /\ UNCHANGED <<kind, snapshot, cursor, task, groupErr, saveErr, ret, saves,
                   mapWriting, spare, hd, nhd, atCall, failOrder>>

\* BotWorker.addTickers: return bw.tiingo.DownloadMissingTickers(), up to
\* the range loop
DownloadMissingTickers ==
    /\ pc = "missing"
    /\ ~crashed
    /\ kind' = "missing"
    /\ snapshot' = All(root)
    /\ cursor' = 1
    /\ pc' = IF Len(All(root)) = 0 THEN "wait" ELSE "loop"
    /\ atCall' = [Tickers |-> Tickers, Rows |-> Rows]
    /\ UNCHANGED <<auxVars, treeVars, storeVars, task, groupErr, saveErr, ret, saves,
                   crashed, mapWriting, spare, hd, nhd, failOrder>>

\* the goroutine that ran stops, the other goroutine goes on
SwitchCall ==
    /\ ~crashed
    /\ other' = [pc |-> pc, kind |-> kind, snapshot |-> snapshot, cursor |-> cursor,
                 task |-> task, groupErr |-> groupErr, saveErr |-> saveErr,
                 ret |-> ret, atCall |-> atCall, failOrder |-> failOrder]
    /\ pc' = other.pc
    /\ kind' = other.kind
    /\ snapshot' = other.snapshot
    /\ cursor' = other.cursor
    /\ task' = other.task
    /\ groupErr' = other.groupErr
    /\ saveErr' = other.saveErr
    /\ ret' = other.ret
    /\ atCall' = other.atCall
    /\ failOrder' = other.failOrder
    /\ UNCHANGED <<ingestVars, watchVars, cacheVars, indVars, botVars, addVars, reingested,
                   portfolioVars>>
    /\ UNCHANGED <<treeVars, storeVars, saves, crashed, mapWriting, spare, hd, nhd>>

InitTriggers == TreeStart /\ StoreStart /\ DownloadStart /\ AuxStart

NextTriggers ==
    \/ \E raw \in DLSyms : addTickers(raw)
    \/ \E resp \in TriggerQuotes(AsSlice(root)) : updateCurrPrices(resp)
    \/ DownloadMissingTickers
    \/ ~crashed /\ StartDownload("all")
    \/ LoopStep
    \/ \E sl \in Slots : \E r \in TriggerResponses(task[sl].ticker) : TaskRespond(sl, r)
    \/ \E sl \in Slots : TaskMetaBegin(sl)
    \/ \E sl \in Slots : TaskMetaEnd(sl)
    \/ \E sl \in Slots : TaskSearch(sl)
    \/ \E sl \in Slots : TaskInsertFront(sl)
    \/ \E sl \in Slots : TaskScan(sl)
    \/ \E sl \in Slots : TaskAppend(sl)
    \/ \E sl \in Slots : TaskStore(sl)
    \/ WaitStep
    \/ \E e \in {None, SaveError} : SaveStep(e)
    \/ SwitchCall

SpecTriggers == InitTriggers /\ [][NextTriggers]_vars

-----------------------------------------------------------------------------
(***************************************************************************)
(* SpecReingest: two tickers are ingested, an EMA is added and             *)
(* CalculateIndicators runs; then the tasks of the daily                   *)
(* DownloadAllTickers merge a ticker's bars again, between further         *)
(* CalculateIndicators calls.                                              *)
(***************************************************************************)
\* HistoricalDaily in a task of the daily DownloadAllTickers, for a ticker
\* the store holds: t.DailyCache.AddData(results, ticker)
Reingest(periods, ticker) ==
    /\ ipc = "idle" /\ ~crashed
    /\ npass > 0
    /\ ticker \in DOMAIN Tickers
    /\ LET h == AddData([Tickers |-> Tickers, Rows |-> Rows], periods, ticker)
       IN  /\ Rows' = h.Rows
           /\ Tickers' = h.Tickers
    /\ reingested' = [done |-> TRUE, ticker |-> ticker, periods |-> periods,
                      before |-> [Tickers |-> Tickers, Rows |-> Rows], npass |-> npass]
    /\ UNCHANGED <<indVars, ingestVars, watchVars, botVars, addVars, other, portfolioVars,
                   cacheVars, treeVars, call, query, ncalls, dlVars>>

InitReingest == TreeStart /\ StoreStart /\ DownloadStart /\ AuxStart

NextReingest ==
    \/ \E t \in StoreSyms : \E ps \in IndBatches(t, MaxRunDate) :
          npass = 0 /\ IndIngest(ps, t)
    \/ Indicators = <<>> /\ AddIndicator(NewEMA(2, 2))
    \/ IndStart
    \/ \E t \in StoreSyms : IndLoop(t)
    \/ \E t \in StoreSyms : IndApply(t)
    \/ \E t \in StoreSyms : IndDone(t)
    \/ IndReturn
    \/ IndSave("ok", "ok")
    \/ \E t \in StoreSyms : \E ps \in IndBatches(t, MaxRunDate) : Reingest(ps, t)

SpecReingest == InitReingest /\ [][NextReingest]_vars

-----------------------------------------------------------------------------
(***************************************************************************)
(* Portfolio (pkg/models/portfolio.go).  Cash, share counts and unit costs *)
(* are float64 in the code; here they are integers, and PurchaseValue, the *)
(* one field the code divides, is a fraction or NaN.  A method returns nil *)
(* or an error, or panics.                                                 *)
(*                                                                         *)
(* SpecPortfolio: Execute is called, as MakeTransaction calls it, with     *)
(* transactions of any action, ticker, share count and unit cost on a      *)
(* portfolio made by NewPortfolio.                                         *)
(***************************************************************************)
Actions == {"buy", "sell", "hold"}

Transactions ==
    [Action : Actions, Ticker : StoreSyms, NumShares : -1..MaxShares, UnitCost : Quotes]

\* the float64 0/0
NaN == [num |-> 0, den |-> 0]

\* (holding.PurchaseValue*holding.NumShares + NumShares*UnitCost) /
\* (holding.NumShares + NumShares), holding.NumShares being shares
AveragedValue(pv, shares, numShares, unitCost) ==
    IF pv = NaN \/ shares + numShares = 0 THEN NaN
    ELSE FDiv(FAdd(FMul(pv, Float(shares)), Float(numShares * unitCost)),
              Float(shares + numShares))

\* Portfolio.Buy
Buy(p, transaction) ==
    IF p.Cash < transaction.NumShares * transaction.UnitCost
    THEN [p |-> p, result |-> "error"]
    ELSE IF transaction.NumShares < 0
    THEN [p |-> p, result |-> "error"]
    ELSE LET cash == p.Cash - transaction.NumShares * transaction.UnitCost
         IN  IF transaction.Ticker \notin DOMAIN p.Holdings
             THEN [p |-> [Cash |-> cash,
                          Holdings |-> MapStore(p.Holdings, transaction.Ticker,
                                          [NumShares |-> transaction.NumShares,
                                           PurchaseValue |-> Float(transaction.UnitCost)])],
                   result |-> "nil"]
             ELSE LET holding == p.Holdings[transaction.Ticker]
                      shares == holding.NumShares + transaction.NumShares
                  IN  [p |-> [Cash |-> cash,
                              Holdings |-> MapStore(p.Holdings, transaction.Ticker,
                                  [NumShares |-> shares,
                                   PurchaseValue |->
                                      AveragedValue(holding.PurchaseValue, shares,
                                                    transaction.NumShares,
                                                    transaction.UnitCost)])],
                       result |-> "nil"]

\* Portfolio.Sell: p.Holdings[transaction.Ticker] is nil for a ticker that
\* is not held, and reading its NumShares panics
Sell(p, transaction) ==
    IF transaction.Ticker \notin DOMAIN p.Holdings
    THEN [p |-> p, result |-> "panic"]
    ELSE LET holding == p.Holdings[transaction.Ticker]
         IN  IF holding.NumShares < transaction.NumShares
             THEN [p |-> p, result |-> "error"]
             ELSE IF transaction.NumShares < 0
             THEN [p |-> p, result |-> "error"]
             ELSE [p |-> [Cash |-> p.Cash + transaction.NumShares * transaction.UnitCost,
                          Holdings |-> MapStore(p.Holdings, transaction.Ticker,
                                          [NumShares |-> holding.NumShares
                                                            - transaction.NumShares,
                                           PurchaseValue |-> Float(transaction.UnitCost)])],
                   result |-> "nil"]

\* Portfolio.Execute
Execute(p, transaction) ==
    IF transaction.Action = "buy" THEN Buy(p, transaction)
    ELSE IF transaction.Action = "sell" THEN Sell(p, transaction)
    ELSE [p |-> p, result |-> "error"]

\* err = portfolio.Execute(transaction) in MakeTransaction
ExecuteCall(transaction) ==
    /\ executed.count < MaxExec
    /\ LET p == [Cash |-> Cash, Holdings |-> Holdings]
           r == Execute(p, transaction)
       IN  /\ Cash' = r.p.Cash
           /\ Holdings' = r.p.Holdings
           /\ executed' = [count |-> executed.count + 1, transaction |-> transaction,
                           result |-> r.result, before |-> p]
    /\ UNCHANGED <<ingestVars, watchVars, cacheVars, indVars, botVars, addVars, callVars,
                   treeVars, storeVars, dlVars>>

InitPortfolio == TreeStart /\ StoreStart /\ DownloadStart /\ AuxStart

NextPortfolio == \E transaction \in Transactions : ExecuteCall(transaction)

SpecPortfolio == InitPortfolio /\ [][NextPortfolio]_vars

-----------------------------------------------------------------------------
(***************************************************************************)
(* The operations that write the store, one after the other: AddData,      *)
(* HistoricalDaily with every response (a 404 removes the ticker from the  *)
(* watchlist) and Tiingo.CalculateIndicators.  The watchlist and the       *)
(* indicator list are filled first; AddData is called once from outside   *)
(* HistoricalDaily and CalculateIndicators runs once.                      *)
(***************************************************************************)
InitGrow == TreeStart /\ StoreStart /\ DownloadStart /\ AuxStart

NextGrow ==
    \/ \E raw \in DLSyms : ncalls + nhd + npass = 0 /\ ~Contains(root, raw) /\ AddTickers(raw)
    \/ \E ps \in SortedPeriods, t \in StoreSyms :
          ipc = "idle" /\ ncalls = 0 /\ AddDataCall(ps, t)
    \/ \E t \in DLSyms, resp \in Responses : ipc = "idle" /\ HistoricalDaily(t, resp)
    \/ ncalls + nhd + npass = 0 /\ Indicators = <<>> /\ AddIndicator(NewEMA(2, 1))
    \/ npass = 0 /\ IndStart
    \/ \E t \in StoreSyms : IndLoop(t)
    \/ \E t \in StoreSyms : IndApply(t)
    \/ \E t \in StoreSyms : IndDone(t)
    \/ IndReturn
    \/ \E how \in {"ok", "openfails"} : IndSave(how, how)

SpecGrow == InitGrow /\ [][NextGrow]_vars

-----------------------------------------------------------------------------
(***************************************************************************)
(* CalculateIndicators called twice: the store is filled and the           *)
(* indicators are added before the first call, nothing else touches the    *)
(* store afterwards.                                                       *)
(***************************************************************************)
InitTwice == TreeStart /\ StoreStart /\ DownloadStart /\ AuxStart

NextTwice ==
    \/ \E t \in StoreSyms : \E ps \in IndBatches(t, MaxIndDate) :
          npass = 0 /\ IndIngest(ps, t)
    \/ \E ind \in {NewEMA(2, 2), NewMACD(1, 2)} : npass = 0 /\ AddIndicator(ind)
    \/ IndStart
    \/ \E t \in StoreSyms : IndLoop(t)
    \/ \E t \in StoreSyms : IndApply(t)
    \/ \E t \in StoreSyms : IndDone(t)
    \/ IndReturn
    \/ IndSave("ok", "ok")

SpecTwice == InitTwice /\ [][NextTwice]_vars

-----------------------------------------------------------------------------
(***************************************************************************)
(* SpecTree: any sequence of Insert and Remove on a TreeSet that starts    *)
(* empty.                                                                  *)
(***************************************************************************)
InitTree == TreeStart /\ StoreStart /\ DownloadStart /\ AuxStart

Insert(v) ==
    /\ nops < MaxOps
    /\ root' = InsertAll(root, <<v>>)
    /\ model' = model \cup {v}
    /\ nops' = nops + 1
    /\ UNCHANGED <<auxVars, storeVars, dlVars>>

Remove(v) ==
    /\ nops < MaxOps
    /\ root' = RemoveAll(root, <<v>>)
    /\ model' = model \ {v}
    /\ nops' = nops + 1
    /\ UNCHANGED <<auxVars, storeVars, dlVars>>

NextTree ==
    \/ \E v \in Symbols : Insert(v)
    \/ \E v \in Symbols : Remove(v)

SpecTree == InitTree /\ [][NextTree]_vars

-----------------------------------------------------------------------------
(***************************************************************************)
(* Properties.                                                             *)
(***************************************************************************)
SetMax(S) == CHOOSE x \in S : \A y \in S : y <= x

\* every bar of periods is stored under ticker in a row dated as the bar
BarsInRowsOfTheirDate(rows, periods, ticker) ==
    \A k \in 1..Len(periods) :
        \E r \in 1..Len(rows) :
            /\ rows[r].Date = periods[k].Date
            /\ ticker \in DOMAIN rows[r].Data
            /\ rows[r].Data[ticker].AdjClose = periods[k].AdjClose

StartedSlots == {sl \in Slots : task[sl].st # "none"}
OkSlots == {sl \in StartedSlots : task[sl].status = "ok"}
NotFoundSlots == {sl \in StartedSlots : task[sl].status = "notfound"}

\* the stores that merging the responses of the slots S one after another,
\* in any order, makes of h
RECURSIVE SequentialResults(_, _)
SequentialResults(h, S) ==
    IF S = {} THEN {h}
    ELSE UNION {SequentialResults(AddData(h, task[sl].periods, task[sl].ticker), S \ {sl}) :
                  sl \in S}

\* C1: after every sequence of Insert and Remove calls on a TreeSet that
\* starts empty, All() is strictly ascending and holds exactly the values
\* inserted and not removed afterwards.
C1_AllIsInsertedMinusRemoved ==
    /\ StrictlyAscending(All(root))
    /\ Range(All(root)) = model

\* C2: after AddData(bars, ticker) every bar of the call is stored under
\* ticker in a row whose Date is the bar's date (a row spliced in when the
\* date matched none).
C2_BarsStoredInRowOfTheirDate == BarsInRowsOfTheirDate(Rows, call.periods, call.ticker)

\* C3: after any sequence of AddData calls run one after another,
\* History.Rows is strictly ascending by date (no two rows share a date).
C3_RowsStrictlyAscending == StrictlyAscending(RowDates(Rows))

\* two calls for two tickers have built at least three rows
C3_Witness ==
    /\ ncalls >= 2
    /\ Len(Rows) >= 3
    /\ Cardinality(DOMAIN Tickers) = 2

C5_ConcurrentMergesSerializable ==
    pc \in {"save", "done"} =>
        [Tickers |-> Tickers, Rows |-> Rows] \in SequentialResults(atCall, OkSlots)

\* C6: when DownloadMissingTickers has returned (the cache saved) and exactly
\* one of its tasks got a not-found response while the others succeeded,
\* every successful ticker has its TickerRange and each of its bars in the
\* row of the bar's date, the failing ticker is off the watchlist, and the
\* returned error is that failure.
C6_OneNotFoundAmongSuccesses ==
    (/\ pc = "done"
     /\ kind = "missing"
     /\ saveErr = None
     /\ Cardinality(NotFoundSlots) = 1
     /\ Cardinality(OkSlots) >= 1
     /\ StartedSlots = NotFoundSlots \cup OkSlots)
    =>
    /\ \A sl \in OkSlots :
          /\ Len(task[sl].periods) > 0 => task[sl].ticker \in DOMAIN Tickers
          /\ BarsInRowsOfTheirDate(Rows, task[sl].periods, task[sl].ticker)
    /\ \A sl \in NotFoundSlots :
          /\ ~Contains(root, task[sl].ticker)
          /\ ret = FetchError(task[sl].ticker, "notfound")

C8_SaveOnceAfterAllTasks ==
    /\ saves <= 1
    /\ saves = 1 => \A sl \in StartedSlots : task[sl].st = "done"
    /\ pc = "done" => saves = 1
    /\ pc \in {"save", "done"} =>
          /\ \A sl \in StartedSlots : task[sl].st = "done" /\ task[sl].status # "none"
          /\ kind = "all" => StartedSlots = 1..Len(snapshot)

\* the call has returned after a task failed and a sibling merged its bars
C8_Witness ==
    /\ pc = "done"
    /\ saves = 1
    /\ failOrder # <<>>
    /\ \E sl \in OkSlots : Len(task[sl].periods) > 0

\* C9 as stated: when a fetch task failed the Download* call returns the
\* first fetch error observed whatever the cache save did, and it returns
\* nil only when every fetch and the save succeeded.
C9_ReturnsFirstFetchError ==
    pc = "done" =>
        /\ failOrder # <<>> => ret = failOrder[1]
        /\ ret = None => failOrder = <<>> /\ saveErr = None

\* C9 amended: the Download* call returns the error of the cache save when
\* the save failed, otherwise the first fetch error observed, otherwise nil.
C9_ReturnsSaveErrorElseFirstFetchError ==
    pc = "done" =>
        ret = IF saveErr # None THEN saveErr
              ELSE IF failOrder # <<>> THEN failOrder[1]
              ELSE None

\* two tasks failed with different errors and the save failed as well
C9_Witness ==
    /\ pc = "done"
    /\ Len(failOrder) = 2
    /\ failOrder[1] # failOrder[2]
    /\ saveErr # None

\* C10: once the range loop of DownloadMissingTickers is over, exactly one
\* task has been started for each ticker that was on the watchlist and had
\* no entry in History.Tickers when the call began, none for any other
\* ticker, and every task fetches the ticker of its loop iteration.
C10_OneTaskPerMissingTicker ==
    (kind = "missing" /\ pc \in {"wait", "save", "done"}) =>
        /\ \A s \in DLSyms \cup {Unwatched} :
              Cardinality({sl \in StartedSlots : task[sl].ticker = s})
                = IF s \in Range(snapshot) /\ s \notin DOMAIN atCall.Tickers
                  THEN 1 ELSE 0
        /\ \A sl \in StartedSlots : task[sl].ticker = snapshot[sl]

\* one watched ticker had an entry and was skipped, another was fetched
C10_Witness ==
    /\ kind = "missing"
    /\ pc = "done"
    /\ \E s \in Range(snapshot) : s \in DOMAIN atCall.Tickers
    /\ \E sl \in StartedSlots : task[sl].status = "ok"

\* C11: an AddData call that repeats the call before it, with the same bars
\* (sorted ascending by date) and the same ticker, leaves the store as the
\* first of the two calls left it: same rows in the same order with the
\* same dates and cells, same TickerRange entries.
C11_AddDataIdempotent ==
    again => /\ RowDates(Rows) = RowDates(prev.Rows)
             /\ Rows = prev.Rows
             /\ Tickers = prev.Tickers

\* a call of several bars was repeated on a store with other rows
C11_Witness ==
    /\ again
    /\ Len(call.periods) >= 2
    /\ Len(Rows) > Len(call.periods)
    /\ Cardinality(DOMAIN Tickers) >= 2

\* C12: after any sequence of AddData calls, Tickers[symbol].Start is the
\* earliest and Tickers[symbol].End the latest bar date ever ingested for
\* the symbol.
C12_TickerRangeCoversAllIngested ==
    /\ DOMAIN Tickers = DOMAIN seen
    /\ \A t \in DOMAIN Tickers :
          /\ \A d \in seen[t] : Tickers[t].Start <= d /\ d <= Tickers[t].End
          /\ Tickers[t].Start \in seen[t]
          /\ Tickers[t].End \in seen[t]

C15_MissingCacheIsNoError ==
    [][(lastLoad'.flip # lastLoad.flip /\ lastLoad'.nofiles) =>
         /\ ~lastLoad'.failed
         /\ Rows' = Rows
         /\ Tickers' = Tickers]_vars

\* C16: every SaveCaches call attempts the gob write and the JSON write,
\* and returns an error when either of the two writes failed.
C16_BothWritesAttemptedAndReported ==
    lastSave.called =>
        /\ lastSave.gobTried
        /\ lastSave.jsonTried
        /\ (lastSave.gobFailed \/ lastSave.jsonFailed) => lastSave.failed

\* C17: when LoadCaches has returned an error, Tickers and Rows of the
\* DailyCache are what they were before the call, with either encoding.
C17_FailedLoadLeavesStore ==
    [][(lastLoad'.flip # lastLoad.flip /\ lastLoad'.failed) =>
         /\ Rows' = Rows
         /\ Tickers' = Tickers]_vars

-----------------------------------------------------------------------------
(***************************************************************************)
(* Properties of the indicators.                                           *)
(***************************************************************************)
\* an ill-formed MACD is in t.Indicators
HoldsIllFormedMACD == \E k \in 1..Len(Indicators) : Panics(Indicators[k])

\* C18: a MACD with shortPeriod >= longPeriod is refused before anything is
\* computed: when one is in the indicator list, no CalculateIndicators call
\* gets through to its end and none has written an indicator value into a
\* bar.
C18_IllFormedMACDRejectedBeforeComputation ==
    HoldsIllFormedMACD => (ipc # "save" /\ ~iwrote)

\* the window of a ticker's task holds a bar of the ticker in every row
FullWindow(ticker) ==
    \A i \in itask[ticker].startIndex..itask[ticker].endIndex :
        ticker \in DOMAIN Rows[i + 1].Data

\* the raw value at window index i of a ticker's task
Raw(ticker, i) == Float(Rows[itask[ticker].startIndex + i + 1].Data[ticker].AdjClose)

RECURSIVE RawSum(_, _)
RawSum(ticker, i) == IF i < 0 THEN Float(0) ELSE FAdd(RawSum(ticker, i - 1), Raw(ticker, i))

\* the value the EMA with smoothing s and period length n has at window
\* index i: the mean of raw[0..i] for i < n, else
\* raw[i] * sf + ema[i-1] * (1 - sf) with sf = s / (n + 1)
RECURSIVE ExpectedEMA(_, _, _, _)
ExpectedEMA(ticker, s, n, i) ==
    IF i < n THEN Frac(RawSum(ticker, i).num, RawSum(ticker, i).den * (i + 1))
    ELSE LET sf == Frac(s, n + 1)
         IN  FAdd(FMul(Raw(ticker, i), sf),
                  FMul(ExpectedEMA(ticker, s, n, i - 1), FSub(Float(1), sf)))

\* C19: when EMA{s, n}.Apply has run over a window in which every row holds
\* a bar of the ticker, the bar at window index i holds under the EMA's name
\* the mean of raw[0..i] for i < n and raw[i]*sf + ema[i-1]*(1-sf) with
\* sf = s/(n+1) for i >= n.
C19_EMAWarmUpAndRecurrence ==
    \A t \in StoreSyms :
        (/\ itask[t].applied = 1
         /\ Indicators[1].kind = "EMA"
         /\ FullWindow(t)) =>
            \A i \in 0..(itask[t].endIndex - itask[t].startIndex) :
                LET bar == Rows[itask[t].startIndex + i + 1].Data[t]
                    ema == Indicators[1]
                IN  /\ Name(ema) \in DOMAIN bar.Indicators
                    /\ bar.Indicators[Name(ema)] =
                           ExpectedEMA(t, ema.Smoothing, ema.PeriodLength, i)

\* EMA{2, 3} has run over the five bars 10, 20, 30, 40, 50 of ticker 1 and
\* has left 10, 15, 20 and then 30, 40
C19_Witness ==
    /\ Indicators = <<NewEMA(2, 3)>>
    /\ itask[1].applied = 1
    /\ itask[1].startIndex = 0 /\ itask[1].endIndex = 4
    /\ FullWindow(1)
    /\ [i \in 1..5 |-> Rows[i].Data[1].AdjClose] = <<10, 20, 30, 40, 50>>
    /\ [i \in 1..5 |-> Rows[i].Data[1].Indicators[<<"EMA", 2, 3>>]]
           = <<Float(10), Float(15), Float(20), Float(30), Float(40)>>

\* h.Tickers[ticker] resolves to a window of rows
Resolvable(ticker) ==
    /\ GetClosestRowBefore(Rows, Tickers[ticker].Start).index # -1
    /\ GetClosestRowBefore(Rows, Tickers[ticker].End).index # -1

\* every ticker of h.Tickers was skipped because its range does not resolve,
\* or has had all indicators applied; with a WaitGroup, wg.Done() was called
\* once for each of them
AllTickersThrough ==
    \A t \in DOMAIN Tickers :
        /\ itask[t].state = IF Resolvable(t) THEN "finished" ELSE "skipped"
        /\ itask[t].state = "finished" => itask[t].applied = Len(Indicators)
        /\ engine = "main" => itask[t].dones = 1

\* C20: CalculateIndicators has returned only when every ticker with a
\* resolvable range has had all its indicators applied and every other
\* ticker was skipped, each counted as complete exactly once; and a call
\* that has started does return unless an Apply panics.
C20_ReturnsAfterAllTickerTasks ==
    /\ [](ipc = "save" => AllTickersThrough)
    /\ (ipc = "loop") ~> (ipc = "save" \/ crashed)

\* the goroutine build has returned from a call in which one ticker was
\* skipped and the other had an indicator applied
C20_Witness ==
    /\ ipc = "save"
    /\ engine = "main"
    /\ Len(Indicators) = 1
    /\ \E t \in DOMAIN Tickers, u \in DOMAIN Tickers :
          /\ itask[t].state = "skipped"
          /\ itask[u].state = "finished" /\ itask[u].applied = 1

RawRows(rows) ==
    [i \in 1..Len(rows) |->
        [Date |-> rows[i].Date,
         Data |-> [t \in DOMAIN rows[i].Data |-> rows[i].Data[t].AdjClose]]]

\* some bar stored under ticker differs between the rows r1 and r2, which
\* hold the same bars
BarsDiffer(r1, r2, ticker) ==
    \E i \in 1..Len(r1) : ticker \in DOMAIN r1[i].Data /\ r1[i].Data[ticker] # r2[i].Data[ticker]

\* C22: every step of a CalculateIndicators call leaves the rows, their
\* dates, the bars they hold, the raw fields of the bars and h.Tickers as
\* they are; a step changes indicator maps of bars of one ticker only, the
\* ticker whose task applies an indicator in that step.
C22_OnlyIndicatorMapsOfOwnBarsChange ==
    [][(ipc # "idle" \/ ipc' # "idle") =>
          /\ RawRows(Rows') = RawRows(Rows)
          /\ Tickers' = Tickers
          /\ \A t \in StoreSyms :
                BarsDiffer(Rows, Rows', t) => itask'[t].applied = itask[t].applied + 1]_vars

\* a call has applied an indicator for both tickers and has written values
\* into bars of both, in a store where a row of the window of ticker 1
\* holds no bar of ticker 1
C22_Witness ==
    /\ ipc = "loop"
    /\ \A t \in StoreSyms :
          /\ itask[t].applied = 1
          /\ \E i \in 1..Len(Rows) :
                t \in DOMAIN Rows[i].Data /\ Rows[i].Data[t].Indicators # EmptyMap
    /\ \E i \in itask[1].startIndex..itask[1].endIndex : 1 \notin DOMAIN Rows[i + 1].Data

\* the value getTarget gives at window index i of a ticker's task
Target(ticker, i) == getTarget(Rows, itask[ticker].startIndex, ticker, i)

RECURSIVE TargetSum(_, _)
TargetSum(ticker, i) ==
    IF i < 0 THEN Float(0) ELSE FAdd(TargetSum(ticker, i - 1), Target(ticker, i))

\* EMA(2, n) of the values of getTarget at window index i
RECURSIVE ScratchEMA(_, _, _)
ScratchEMA(ticker, n, i) ==
    IF i < n THEN Frac(TargetSum(ticker, i).num, TargetSum(ticker, i).den * (i + 1))
    ELSE LET sf == Frac(2, n + 1)
         IN  FAdd(FMul(Target(ticker, i), sf),
                  FMul(ScratchEMA(ticker, n, i - 1), FSub(Float(1), sf)))

\* C23: when MACD{short, long}.Apply has run over the window of a ticker
\* whose bars held no indicator value, a bar at window index i holds no key
\* but the MACD's name, holds that key exactly when i >= long, and the value
\* is EMA(2, short)[i] - EMA(2, long)[i].
C23_MACDWritesOwnNameFromLongPeriod ==
    \A t \in StoreSyms :
        (itask[t].applied = 1 /\ Indicators[1].kind = "MACD") =>
            \A i \in 0..(itask[t].endIndex - itask[t].startIndex) :
                LET data == Rows[itask[t].startIndex + i + 1].Data
                    macd == Indicators[1]
                IN  t \in DOMAIN data =>
                        /\ DOMAIN data[t].Indicators =
                              IF i >= macd.LongPeriod THEN {Name(macd)} ELSE {}
                        /\ i >= macd.LongPeriod =>
                              data[t].Indicators[Name(macd)] =
                                  FSub(ScratchEMA(t, macd.ShortPeriod, i),
                                       ScratchEMA(t, macd.LongPeriod, i))

\* MACD{1, 2} has run over the five bars 10..50 of ticker 1: the bars at
\* indices 0 and 1 hold no value, the bar at index 2 holds 30 - 25 = 5
C23_Witness ==
    /\ Indicators = <<NewMACD(1, 2)>>
    /\ itask[1].applied = 1
    /\ itask[1].startIndex = 0 /\ itask[1].endIndex = 4
    /\ FullWindow(1)
    /\ Rows[1].Data[1].Indicators = EmptyMap
    /\ Rows[2].Data[1].Indicators = EmptyMap
    /\ Rows[3].Data[1].AdjClose = 30
    /\ Rows[3].Data[1].Indicators[<<"MACD", 1, 2>>] = Float(5)

\* the hour lies outside the trading hours
OutsideTradingHours(h) == h < 14 \/ h > 21

\* C24: an iteration of the refresh loop started by a tick, all of whose
\* clock readings give an hour below 14 or above 21, sends no request to
\* the provider, does not assign latestPrices and hands nothing to the
\* valuation loop.
C24_NoRefreshOutsideTradingHours ==
    (/\ live.byTick
     /\ live.h1 # -1
     /\ OutsideTradingHours(live.h1)
     /\ live.h2 # -1 => OutsideTradingHours(live.h2))
        => (live.requests = 0 /\ ~live.assigned /\ ~live.handedOff)

\* C25: a FetchCurrPrices call that got no response or a non-OK status
\* gives its caller an error and no mapping, and no call changes the
\* watchlist.
C25_FetchFailureReportedAsError ==
    fetched.called =>
        /\ fetched.status # "ok" => fetched.returned = "error"
        /\ fetched.after = fetched.before

\* some row holds a bar of the ticker
HasBar(rows, ticker) == \E i \in 1..Len(rows) : ticker \in DOMAIN rows[i].Data

\* C26: after every sequence of AddData calls a ticker has an entry in
\* h.Tickers exactly when some row holds a bar of it.
C26_RangeEntryIffBarStored ==
    \A t \in StoreSyms : (t \in DOMAIN Tickers) <=> HasBar(Rows, t)

\* the last of two AddData calls passed no bars for a ticker that has none,
\* and the other ticker has bars
C26_Witness ==
    /\ ncalls = 2
    /\ call.periods = <<>>
    /\ ~HasBar(Rows, call.ticker)
    /\ \E t \in StoreSyms : HasBar(Rows, t)

\* the (date, ticker) cells of the store: the row dated date holds a bar of
\* the ticker
Cells(rows) ==
    {<<rows[i].Date, t>> : i \in 1..Len(rows), t \in StoreSyms} \cap
    UNION {{<<rows[i].Date, t>> : t \in DOMAIN rows[i].Data} : i \in 1..Len(rows)}

\* C27: no step of AddData, of HistoricalDaily (with a failed fetch that
\* removes the ticker from the watchlist) or of CalculateIndicators removes
\* a row date or a (date, ticker) cell from the store.
C27_RowDatesAndCellsOnlyGrow ==
    [][/\ Range(RowDates(Rows)) \subseteq Range(RowDates(Rows'))
       /\ Cells(Rows) \subseteq Cells(Rows')]_vars

\* a HistoricalDaily call has just removed a watched ticker after a 404,
\* CalculateIndicators has run, and the store holds bars of both tickers
\* in three rows
C27_Witness ==
    /\ hd.status = "notfound"
    /\ hd.watched
    /\ ~Contains(root, hd.ticker)
    /\ npass = 1
    /\ ipc = "idle"
    /\ Len(Rows) = 3
    /\ \A t \in StoreSyms : HasBar(Rows, t)

\* C28: Tiingo.AddTickers puts the upper-case form of the symbol it is
\* given on the watchlist and nothing else; when that form is watched
\* already, whatever the letter case of the argument, the watchlist holds
\* the same symbols as before; the call starts no download and no fetch
\* and leaves the store as it is.
C28_AddTickersUppercasesAndIsIdempotent ==
    [][\A raw \in RawTickers :
          AddTickers(raw) =>
              /\ Range(AsSlice(root')) = Range(AsSlice(root)) \cup {ToUpper(raw)}
              /\ ToUpper(raw) \in DLSyms
              /\ Contains(root, ToUpper(raw)) => AsSlice(root') = AsSlice(root)
              /\ StrictlyAscending(AsSlice(root'))
              /\ UNCHANGED <<Rows, Tickers, pc, kind, snapshot, task, hd, nhd>>]_vars

\* the last AddTickers call got the lower-case form of a symbol that was
\* watched, next to another symbol, and the watchlist is as before
C28_Witness ==
    /\ added.called
    /\ added.raw < 0
    /\ Len(added.before) = 2
    /\ Contains(root, ToUpper(added.raw))
    /\ AsSlice(root) = added.before

\* the nodes of the tree under n
RECURSIVE Nodes(_)
Nodes(n) == IF n = Nil THEN {} ELSE {n} \cup Nodes(n.left) \cup Nodes(n.right)

\* the numbers of black nodes on the paths from n down to a nil link
RECURSIVE BlackHeights(_)
BlackHeights(n) ==
    IF n = Nil THEN {0}
    ELSE {h + (IF n.color = BLACK THEN 1 ELSE 0) :
             h \in BlackHeights(n.left) \cup BlackHeights(n.right)}

\* C29: after every Insert and every Remove the root is black, no node has
\* a red right child, no red node has a red left child, and every path
\* from the root to a nil link passes the same number of black nodes.
C29_RedBlackInvariants ==
    /\ ~isRed(root)
    /\ \A n \in Nodes(root) : ~isRed(n.right)
    /\ \A n \in Nodes(root) : ~(isRed(n) /\ isRed(n.left))
    /\ Cardinality(BlackHeights(root)) = 1

\* C30: the window [startIndex, endIndex] CalculateIndicators resolves for
\* a ticker contains every row that holds a bar of the ticker, and the row
\* at startIndex holds a bar of the ticker (its earliest).
C30_WindowCoversAllBars ==
    \A t \in StoreSyms :
        itask[t].state \in {"running", "finished"} =>
            /\ \A i \in 1..Len(Rows) :
                  t \in DOMAIN Rows[i].Data =>
                      (itask[t].startIndex <= i - 1 /\ i - 1 <= itask[t].endIndex)
            /\ t \in DOMAIN Rows[itask[t].startIndex + 1].Data

\* the rows with every indicator map emptied: the store as AddData left it
ClearIndicators(rows) ==
    [i \in 1..Len(rows) |->
        [rows[i] EXCEPT !.Data =
            [t \in DOMAIN rows[i].Data |-> [rows[i].Data[t] EXCEPT !.Indicators = EmptyMap]]]]

\* the indicators from the k-th on applied in list order to a ticker's window
RECURSIVE ApplyFrom(_, _, _, _, _, _)
ApplyFrom(indicators, k, rows, startIndex, endIndex, ticker) ==
    IF k > Len(indicators) THEN rows
    ELSE ApplyFrom(indicators, k + 1,
                   Apply(indicators[k], rows, startIndex, endIndex, ticker),
                   startIndex, endIndex, ticker)

\* one CalculateIndicators over the rows for the tickers given
RECURSIVE OnePass(_, _)
OnePass(rows, tickers) ==
    IF tickers = {} THEN rows
    ELSE LET t == CHOOSE x \in tickers : TRUE
             startIndex == GetClosestRowBefore(rows, Tickers[t].Start).index
             endIndex   == GetClosestRowBefore(rows, Tickers[t].End).index
         IN  OnePass(IF startIndex = -1 \/ endIndex = -1 THEN rows
                     ELSE ApplyFrom(Indicators, 1, rows, startIndex, endIndex, t),
                     tickers \ {t})

\* C31: when a CalculateIndicators call has gone through all tickers, the
\* first call as the second, every bar holds the indicator map that one
\* call leaves on the store as AddData filled it.
C31_SecondPassLeavesSameIndicatorMaps ==
    (ipc = "save" /\ npass \in {1, 2}) =>
        Rows = OnePass(ClearIndicators(Rows), DOMAIN Tickers)

\* the second call has gone through all tickers with an EMA and a MACD, the
\* window of a ticker holds a row without a bar of it, and a bar of that
\* ticker holds values
C31_Witness ==
    /\ ipc = "save"
    /\ npass = 2
    /\ Len(Indicators) = 2
    /\ Indicators[1].kind # Indicators[2].kind
    /\ \E t \in StoreSyms :
          /\ itask[t].state = "finished"
          /\ \E i \in itask[t].startIndex..itask[t].endIndex : t \notin DOMAIN Rows[i + 1].Data
          /\ \E i \in itask[t].startIndex..itask[t].endIndex :
                /\ t \in DOMAIN Rows[i + 1].Data
                /\ DOMAIN Rows[i + 1].Data[t].Indicators = {Name(Indicators[1]), Name(Indicators[2])}

\* C32: every All() a goroutine has called returns, whatever Insert or
\* Remove the other goroutine calls meanwhile.
C32_AllAlwaysReturns ==
    \A p \in Procs : (wproc[p].op = "All") ~> (wproc[p].pc = "idle")

\* a fetch task that has been started and has not returned
InFlight(t) == t.st \notin {"none", "done"}

\* a fetch task inside History.AddData
InAddData(t) == t.st \in {"meta", "metaW", "search", "insfront", "scan", "append", "store"}

\* C33: whatever add_ticker requests, valuation goroutines and daily
\* downloads run together, no two fetch tasks for one ticker are in flight
\* at the same time.
C33_OneFetchTaskPerTicker ==
    \A a \in Slots, b \in Slots :
        /\ (InFlight(task[a]) /\ InFlight(other.task[b]))
               => task[a].ticker # other.task[b].ticker
        /\ (a # b /\ InFlight(task[a]) /\ InFlight(task[b]))
               => task[a].ticker # task[b].ticker

\* C34: a quote refresh whose request fails or is answered with a non-OK
\* status erases no price: every ticker that had a price in latestPrices
\* before the refresh has the same price after it.
C34_FailedRefreshKeepsPrices ==
    [][(live'.requests = live.requests + 1 /\ fetched'.status # "ok")
          => \A t \in DOMAIN latestPrices :
                 t \in DOMAIN latestPrices' /\ latestPrices'[t] = latestPrices[t]]_vars

\* the bars the rows dated date hold for ticker
BarsOn(rows, date, ticker) ==
    {rows[i].Data[ticker] :
        i \in {j \in 1..Len(rows) : rows[j].Date = date /\ ticker \in DOMAIN rows[j].Data}}

\* C35: from a re-ingest of a ticker until the next CalculateIndicators
\* call, every bar of the ticker that the re-ingest stored (a bar on a date
\* of the response, or a bar that was not in the row before) has an empty
\* indicator map, and every bar of another ticker is as it was before the
\* re-ingest.
C35_ReingestedBarsLoseIndicators ==
    (reingested.done /\ npass = reingested.npass) =>
        /\ \A i \in 1..Len(Rows) :
              (/\ reingested.ticker \in DOMAIN Rows[i].Data
               /\ \/ \E k \in 1..Len(reingested.periods) :
                        reingested.periods[k].Date = Rows[i].Date
                  \/ Rows[i].Data[reingested.ticker]
                        \notin BarsOn(reingested.before.Rows, Rows[i].Date,
                                      reingested.ticker))
                 => Rows[i].Data[reingested.ticker].Indicators = EmptyMap
        /\ \A t \in StoreSyms \ {reingested.ticker} :
              \A i \in 1..Len(reingested.before.Rows) :
                  LET row == reingested.before.Rows[i]
                  IN  t \in DOMAIN row.Data => BarsOn(Rows, row.Date, t) = {row.Data[t]}

\* a bar that held an indicator value has been re-ingested, while a bar of
\* the other ticker holds one too
C35_Witness ==
    /\ reingested.done /\ npass = reingested.npass
    /\ \E k \in 1..Len(reingested.periods) :
          \E b \in BarsOn(reingested.before.Rows, reingested.periods[k].Date,
                          reingested.ticker) : b.Indicators # EmptyMap
    /\ \E t \in StoreSyms \ {reingested.ticker} :
          \E i \in 1..Len(Rows) :
              t \in DOMAIN Rows[i].Data /\ Rows[i].Data[t].Indicators # EmptyMap

\* C36: a refresh inside the trading hours that returns goes on to the
\* hand-off, the hand-off is eventually accepted, only an accepted hand-off
\* starts a valuation pass beyond the first, which is one pass, and every
\* pass, a failed one too, ends at the receive of the valuation loop, as
\* long as the process runs.
C36_RefreshThenOneValuationPass ==
    /\ [][/\ (live'.requests = live.requests + 1 /\ ~crashed') => lpc' = "send"
          /\ (vpc # "pass" /\ vpc' = "pass")
                => (lpc = "send" /\ lpc' = "wait" /\ live.assigned /\ live'.handedOff)
          /\ (lpc = "send" /\ lpc' # "send") => (vpc = "recv" /\ vpc' = "pass")
          /\ (valued'.passes # valued.passes)
                => (valued'.passes = valued.passes + 1 /\ vpc = "pass" /\ vpc' = "recv")
          /\ (vpc = "pass" /\ vpc' # "pass") => valued'.passes = valued.passes + 1]_vars
    /\ (lpc = "send") ~> (lpc = "wait" /\ live.handedOff)
    /\ (vpc = "pass") ~> (vpc = "recv" \/ crashed)

\* a refresh has been handed off after a tick and the pass it started, in
\* which no calculateAccountValue goroutine was started, has ended
C36_Witness ==
    /\ live.byTick /\ live.assigned /\ live.handedOff
    /\ vpc = "recv"
    /\ valued.passes >= 2
    /\ valued.started = 0

\* an Execute call that is to be rejected: an unknown action, a negative
\* share count, a buy the cash does not cover, a sale of more shares than
\* are held or of a ticker that is not held
Rejected(e) ==
    LET tr == e.transaction
    IN  \/ tr.Action \notin {"buy", "sell"}
        \/ tr.NumShares < 0
        \/ tr.Action = "buy" /\ e.before.Cash < tr.NumShares * tr.UnitCost
        \/ tr.Action = "sell" /\ tr.Ticker \notin DOMAIN e.before.Holdings
        \/ /\ tr.Action = "sell"
           /\ tr.Ticker \in DOMAIN e.before.Holdings
           /\ e.before.Holdings[tr.Ticker].NumShares < tr.NumShares

\* C37: an Execute call that is to be rejected returns an error and leaves
\* Cash and Holdings as they were.
C37_RejectedExecuteReturnsError ==
    (executed.count > 0 /\ Rejected(executed)) =>
        /\ executed.result = "error"
        /\ Cash = executed.before.Cash
        /\ Holdings = executed.before.Holdings

=============================================================================
